---- MODULE Spec2Model ----
(***************************************************************************)
(* fastx402-ts: the payment-gated access protocol.                         *)
(*                                                                         *)
(* Server side (server module): configureX402, getConfig, createChallenge, *)
(* issue402Response, verifyPaymentHeader and the handler returned by       *)
(* x402Middleware, run against an Express-like response object.            *)
(* Client side: X402Client.request, x402Fetch and the axios interceptor,   *)
(* run against an arbitrary transport.                                     *)
(***************************************************************************)
EXTENDS Integers, Sequences, FiniteSets, TLC

(***************************************************************************)
(* Values                                                                  *)
(***************************************************************************)

\* JavaScript undefined for an optional string / an optional number / object.
Undef == "undefined"
UndefNum == 0 - 1
\* The number NaN, and JSON's null where a number is expected.
NaN == 0 - 2
NullNum == 0 - 3
NoChallenge == [none |-> TRUE]
NoSignature == [none |-> TRUE]
NoConfig == [none |-> TRUE]
NoResult == [none |-> TRUE]
NoBody == [none |-> TRUE]

\* A thrown Error's message, as the sequence of the parts it is concatenated
\* from; an absent (undefined) error text is the empty sequence.
NoText == <<>>

\* Bounds of the model.
MaxReqs == 1
MaxNow == 2
MaxNonce == 2
MaxReplayReqs == 2
MaxWire == 3
\* How many x402Fetch wrappers initX402Fetch puts around the platform's fetch.
MaxLayers == 2

\* Program constants.
DefaultChainId == 8453

Nonces == 1..MaxNonce

\* Account addresses in their checksummed (mixed case) and lower-case
\* spellings, and a string that is no address.
ChecksumAddresses == {"0xMerchant", "0xPayer", "0xOther"}
LowerAddresses == {"0xmerchant", "0xpayer", "0xother"}
NotAnAddress == "0xZZ"

\* String.prototype.toLowerCase on the address strings.
ToLowerCase(a) ==
  CASE a = "0xMerchant" -> "0xmerchant"
    [] a = "0xPayer" -> "0xpayer"
    [] a = "0xOther" -> "0xother"
    [] OTHER -> a

\* ethers.getAddress: the checksummed spelling; throws on a non-address.
GetAddress(a) ==
  CASE ToLowerCase(a) = "0xmerchant" -> [threw |-> FALSE, addr |-> "0xMerchant"]
    [] ToLowerCase(a) = "0xpayer" -> [threw |-> FALSE, addr |-> "0xPayer"]
    [] ToLowerCase(a) = "0xother" -> [threw |-> FALSE, addr |-> "0xOther"]
    [] OTHER -> [threw |-> TRUE, addr |-> Undef]

(***************************************************************************)
(* utils: EIP-712 encoding and signature recovery                          *)
(***************************************************************************)

getEIP712Domain(chainId) ==
  <<"x402", "1", chainId, "0x0000000000000000000000000000000000000000">>

\* createPaymentMessage with a slip: the nonce is among the signed fields.
createPaymentMessageWithNonce(challenge) ==
  LET m == GetAddress(challenge.merchant)
  IN IF m.threw
       THEN [threw |-> TRUE, message |-> <<"invalid address">>, value |-> <<>>]
       ELSE [threw |-> FALSE, message |-> NoText,
             value |-> <<challenge.price, challenge.currency, challenge.chain_id,
                         m.addr, challenge.timestamp,
                         IF challenge.description = Undef THEN ""
                         ELSE challenge.description, challenge.nonce>>]

\* createPaymentMessage: the six signed fields; the nonce is not among them.
\* ethers.getAddress throws on a merchant that is no address.
createPaymentMessage(challenge) ==
  LET m == GetAddress(challenge.merchant)
  IN IF m.threw
       THEN [threw |-> TRUE, message |-> <<"invalid address">>, value |-> <<>>]
       ELSE [threw |-> FALSE, message |-> NoText,
             value |-> <<challenge.price, challenge.currency, challenge.chain_id,
                         m.addr, challenge.timestamp,
                         IF challenge.description = Undef THEN ""
                         ELSE challenge.description>>]

\* encodePaymentMessage: the typed-data hash, kept as the pair it digests
\* (a collision-free digest of domain and message).  A uint256 field that
\* is no number (undefined, NaN, null) makes the encoder throw.
encodePaymentMessage(challenge) ==
  LET msg == createPaymentMessage(challenge)
  IN IF msg.threw
       THEN [threw |-> TRUE, message |-> msg.message, hash |-> <<>>]
     ELSE IF challenge.chain_id < 0 \/ challenge.timestamp < 0
       THEN [threw |-> TRUE, message |-> <<"invalid BigNumberish value">>,
             hash |-> <<>>]
       ELSE [threw |-> FALSE, message |-> NoText,
             hash |-> <<getEIP712Domain(challenge.chain_id), msg.value>>]

\* A signature by the holder of key over a hash, and a malformed signature.
SignWith(key, hash) == [wellFormed |-> TRUE, key |-> key, msg |-> hash]
MalformedSignature == [wellFormed |-> FALSE, key |-> "none", msg |-> <<>>]

AddressOf(key) == IF key = "K" THEN "0xPayer" ELSE "0xOther"

\* ethers.recoverAddress: throws on a malformed signature; a well-formed
\* signature over another hash recovers to some unrelated address.
recoverAddress(hash, signature) ==
  IF ~signature.wellFormed
    THEN [threw |-> TRUE, addr |-> Undef]
    ELSE [threw |-> FALSE,
          addr |-> IF signature.msg = hash THEN AddressOf(signature.key)
                   ELSE "0xUnrelated"]

\* verifySignature with a slip: the addresses are compared as spelled.
verifySignatureExact(signature, messageHash, signer) ==
  LET recovered == recoverAddress(messageHash, signature)
  IN IF recovered.threw THEN FALSE
     ELSE recovered.addr = signer

verifySignature(signature, messageHash, signer) ==
  LET recovered == recoverAddress(messageHash, signature)
  IN IF recovered.threw THEN FALSE
     ELSE ToLowerCase(recovered.addr) = ToLowerCase(signer)

(***************************************************************************)
(* Server: configuration                                                   *)
(***************************************************************************)

NoProvider == "null"
Providers == {"privy", "custom"}

\* loadConfigFromEnv: throws when the environment names no merchant address.
loadConfigFromEnv(e) ==
  IF e.address = Undef
    THEN [threw |-> TRUE,
          message |-> <<"X402_RECEIVER_ADDRESS or X402_MERCHANT_ADDRESS environment variable is required">>,
          config |-> NoConfig]
    ELSE [threw |-> FALSE, message |-> NoText,
          config |-> [merchantAddress |-> e.address, chainId |-> DefaultChainId,
                      currency |-> "USDC", mode |-> "instant"]]

\* getConfig: the global config, loaded from the environment on first use.
\* gc is globalConfig before the call, .gc the value after it.
getConfig(gc, e) ==
  IF gc # NoConfig
    THEN [threw |-> FALSE, message |-> NoText, config |-> gc, gc |-> gc]
    ELSE LET l == loadConfigFromEnv(e)
         IN [threw |-> l.threw, message |-> l.message, config |-> l.config,
             gc |-> l.config]

\* JavaScript a || b on an optional string and on an optional number.
OrString(a, b) == IF a = Undef \/ a = "" THEN b ELSE a
OrNumber(a, b) == IF a = UndefNum \/ a = 0 THEN b ELSE a

\* createChallenge(routeConfig) at time t with generateNonce() = nonce.
createChallenge(route, gc, e, t, nonce) ==
  LET c == getConfig(gc, e)
  IN IF c.threw
       THEN [threw |-> TRUE, message |-> c.message, challenge |-> NoChallenge,
             gc |-> c.gc]
       ELSE [threw |-> FALSE, message |-> NoText, gc |-> c.gc,
             challenge |->
               [price |-> route.price,
                currency |-> OrString(route.currency,
                                      OrString(c.config.currency, "USDC")),
                chain_id |-> OrNumber(route.chainId,
                                      OrNumber(c.config.chainId, DefaultChainId)),
                merchant |-> c.config.merchantAddress,
                timestamp |-> t,
                description |-> route.description,
                nonce |-> nonce]]

(***************************************************************************)
(* Server: verifyPaymentHeader                                             *)
(***************************************************************************)

\* The X-PAYMENT request header: absent, the empty string, a text that is
\* not JSON, or the JSON text of an object.
AbsentHeader == [kind |-> "absent"]
EmptyHeader == [kind |-> "empty"]
TextHeader == [kind |-> "text"]
JsonHeader(obj) == [kind |-> "json", value |-> obj]

\* !paymentHeader
Falsy(header) == header.kind \in {"absent", "empty"}

\* JSON.parse
JsonParse(header) ==
  IF header.kind = "json"
    THEN [threw |-> FALSE, message |-> NoText, value |-> header.value]
    ELSE [threw |-> TRUE, message |-> <<"Unexpected token">>, value |-> NoBody]

Invalid(text) == [valid |-> FALSE, signer |-> Undef, error |-> text]
Valid(signer) == [valid |-> TRUE, signer |-> signer, error |-> NoText]

\* verifyLocally with a slip: another error text for a failed check.
verifyLocallyVague(challenge, signature, signer) ==
  LET h == encodePaymentMessage(challenge)
  IN IF h.threw THEN Invalid(<<"Verification error: ">> \o h.message)
     ELSE IF ~verifySignature(signature, h.hash, signer)
       THEN Invalid(<<"Invalid signature">>)
       ELSE Valid(signer)

\* verifyLocally with a slip: the message of a hashing failure is passed on
\* as it is.
verifyLocallyBare(challenge, signature, signer) ==
  LET h == encodePaymentMessage(challenge)
  IN IF h.threw THEN Invalid(h.message)
     ELSE IF ~verifySignature(signature, h.hash, signer)
       THEN Invalid(<<"Signature verification failed">>)
       ELSE Valid(signer)

\* The instant-mode branch of verifyPaymentHeader.
verifyLocally(challenge, signature, signer) ==
  LET h == encodePaymentMessage(challenge)
  IN IF h.threw THEN Invalid(<<"Verification error: ">> \o h.message)
     ELSE IF ~verifySignature(signature, h.hash, signer)
       THEN Invalid(<<"Signature verification failed">>)
       ELSE Valid(signer)

\* verifyPaymentHeader with a slip: the provider is called whenever one is
\* configured, whatever the mode.
verifyPaymentHeaderAnyMode(header, gc, e, provider) ==
  IF Falsy(header)
    THEN [delegated |-> FALSE, gc |-> gc,
          result |-> Invalid(<<"Missing X-PAYMENT header">>)]
  ELSE LET p == JsonParse(header) IN
    IF p.threw
      THEN [delegated |-> FALSE, gc |-> gc,
            result |-> Invalid(<<"Verification error: ">> \o p.message)]
    ELSE IF \/ p.value.signature = NoSignature
            \/ p.value.signer = Undef
            \/ p.value.challenge = NoChallenge
      THEN [delegated |-> FALSE, gc |-> gc,
            result |-> Invalid(<<"Invalid payment header format">>)]
    ELSE LET c == getConfig(gc, e) IN
      IF c.threw
        THEN [delegated |-> FALSE, gc |-> c.gc,
              result |-> Invalid(<<"Verification error: ">> \o c.message)]
      ELSE IF provider # NoProvider
        THEN [delegated |-> TRUE, gc |-> c.gc, result |-> NoResult]
        ELSE [delegated |-> FALSE, gc |-> c.gc,
              result |-> verifyLocally(p.value.challenge, p.value.signature,
                                       p.value.signer)]

\* verifyPaymentHeader up to its only suspension point: either a result, or
\* the call of globalWalletProvider.verifyPayment it awaits.
verifyPaymentHeader(header, gc, e, provider) ==
  IF Falsy(header)
    THEN [delegated |-> FALSE, gc |-> gc,
          result |-> Invalid(<<"Missing X-PAYMENT header">>)]
  ELSE LET p == JsonParse(header) IN
    IF p.threw
      THEN [delegated |-> FALSE, gc |-> gc,
            result |-> Invalid(<<"Verification error: ">> \o p.message)]
    ELSE IF \/ p.value.signature = NoSignature
            \/ p.value.signer = Undef
            \/ p.value.challenge = NoChallenge
      THEN [delegated |-> FALSE, gc |-> gc,
            result |-> Invalid(<<"Invalid payment header format">>)]
    ELSE LET c == getConfig(gc, e) IN
      IF c.threw
        THEN [delegated |-> FALSE, gc |-> c.gc,
              result |-> Invalid(<<"Verification error: ">> \o c.message)]
      ELSE IF c.config.mode = "embedded" /\ provider # NoProvider
        THEN [delegated |-> TRUE, gc |-> c.gc, result |-> NoResult]
        ELSE [delegated |-> FALSE, gc |-> c.gc,
              result |-> verifyLocally(p.value.challenge, p.value.signature,
                                       p.value.signer)]

\* privyVerifyPayment with a slip: a failed check gives no error text.
privyVerifyPaymentTerse(challenge, signature, signer) ==
  LET h == encodePaymentMessage(challenge)
  IN IF h.threw THEN Invalid(h.message)
     ELSE IF ~verifySignature(signature, h.hash, signer)
       THEN Invalid(NoText)
       ELSE Valid(signer)

\* PrivyWalletProvider.verifyPayment
\* privyVerifyPayment with a slip: the signer must be spelled as the
\* recovered address is.
privyVerifyPaymentExact(challenge, signature, signer) ==
  LET h == encodePaymentMessage(challenge)
  IN IF h.threw THEN Invalid(h.message)
     ELSE IF ~verifySignatureExact(signature, h.hash, signer)
       THEN Invalid(<<"Invalid signature">>)
       ELSE Valid(signer)

privyVerifyPayment(challenge, signature, signer) ==
  LET h == encodePaymentMessage(challenge)
  IN IF h.threw THEN Invalid(h.message)
     ELSE IF ~verifySignature(signature, h.hash, signer)
       THEN Invalid(<<"Invalid signature">>)
       ELSE Valid(signer)

\* What a wallet provider's verifyPayment may settle with: a result (also
\* one without error text or signer), undefined, or a rejection.
ProviderOutcomes(signer) ==
  {[threw |-> FALSE, message |-> NoText, result |-> Valid(signer)],
   [threw |-> FALSE, message |-> NoText, result |-> Valid(Undef)],
   [threw |-> FALSE, message |-> NoText, result |-> Invalid(<<"provider: declined">>)],
   [threw |-> FALSE, message |-> NoText, result |-> Invalid(NoText)],
   [threw |-> FALSE, message |-> NoText, result |-> NoResult],
   [threw |-> TRUE, message |-> <<"provider: unreachable">>, result |-> NoResult]}

\* verifyPaymentHeaderResume with a slip: a rejection is reported without
\* the provider's message.
verifyPaymentHeaderResumeOpaque(outcome) ==
  IF outcome.threw
    THEN Invalid(<<"Verification error: ", "provider failed">>)
    ELSE outcome.result

\* The rest of verifyPaymentHeader once the provider call has settled: the
\* provider's result unchanged, a rejection caught and converted.
verifyPaymentHeaderResume(outcome) ==
  IF outcome.threw
    THEN Invalid(<<"Verification error: ">> \o outcome.message)
    ELSE outcome.result

(***************************************************************************)
(* Server: the request / response pair of one middleware invocation        *)
(***************************************************************************)

\* The JSON bodies the middleware writes (an undefined member is not
\* serialized: Undef / NoText / NoChallenge stand for "no such member").
Body402(challenge, verificationError) ==
  [error |-> "Payment Required", challenge |-> challenge,
   verificationError |-> verificationError, message |-> NoText]
Body500(message) ==
  [error |-> "Internal server error", challenge |-> NoChallenge,
   verificationError |-> NoText, message |-> message]

\* One invocation: the request's header and x402 fields, the response
\* object, the calls of next(), and the handler's position.  strict tells
\* the response object of node's http (setting a header or writing once the
\* body has been sent throws ERR_HTTP_HEADERS_SENT) from a recording double
\* as used by the tests (every call succeeds).
NewInvocation(header, strict) ==
  [header |-> header, strict |-> strict, pc |-> "running",
   x402Challenge |-> NoChallenge, x402Verified |-> FALSE,
   verification |-> NoResult, verifyUsed |-> FALSE,
   provider |-> NoProvider,
   statusCode |-> 200, headers |-> {}, sent |-> FALSE, sentStatus |-> 0,
   sentBody |-> NoBody, sentHeaders |-> {}, log |-> <<>>,
   nextCalls |-> 0, exc |-> FALSE, excMsg |-> NoText, rejected |-> FALSE]

HeadersSent == <<"Cannot set headers after they are sent to the client">>

\* res.status(code)
ResStatus(q, code) ==
  [q EXCEPT !.statusCode = code,
            !.log = Append(@, IF code = 402 THEN "status402" ELSE "status500")]

\* res.json(body): sends status, headers and body.
ResJson(q, body) ==
  IF q.sent
    THEN IF q.strict
           THEN [q EXCEPT !.exc = TRUE, !.excMsg = HeadersSent,
                          !.log = Append(@, "json-throws")]
           ELSE [q EXCEPT !.log = Append(@, "json-again")]
    ELSE [q EXCEPT !.sent = TRUE, !.sentStatus = q.statusCode,
                   !.sentBody = body, !.sentHeaders = q.headers,
                   !.log = Append(@, "json")]

\* res.setHeader(name, value)
ResSetHeader(q, name, value) ==
  IF q.sent /\ q.strict
    THEN [q EXCEPT !.exc = TRUE, !.excMsg = HeadersSent,
                   !.log = Append(@, "setHeader-throws")]
    ELSE [q EXCEPT !.headers = @ \cup {<<name, value>>},
                   !.log = Append(@, IF q.sent THEN "setHeader-late"
                                     ELSE "setHeader")]

\* issue402Response, and the same three calls of the middleware's own 402
\* branch with a verificationError member.
Respond402(q, challenge, verificationError) ==
  LET w == ResJson(ResStatus(q, 402), Body402(challenge, verificationError))
  IN IF w.exc THEN w ELSE ResSetHeader(w, "X-Payment-Required", "true")

issue402Response(q, challenge) == Respond402(q, challenge, NoText)

\* The catch block of the middleware: a 500 with the error's message.  An
\* exception thrown inside the catch block leaves the handler (its promise
\* rejects).
Catch(q) ==
  IF ~q.exc THEN [q EXCEPT !.pc = "done"]
  ELSE LET w == ResJson(ResStatus([q EXCEPT !.exc = FALSE], 500),
                        Body500(q.excMsg))
       IN [w EXCEPT !.pc = "done", !.rejected = w.exc, !.exc = FALSE]

Throw(q, message) == [q EXCEPT !.exc = TRUE, !.excMsg = message]

\* IssueChallenge with a slip: the challenge is not stored on the request.
IssueChallengeUnstored(q, cc, verificationError) ==
  IF cc.threw THEN Throw(q, cc.message)
  ELSE Respond402(q, cc.challenge, verificationError)

\* IssueChallenge with a slip: the challenge the client embedded is sent
\* back instead of a new one.
IssueChallengeEchoed(q, cc, verificationError) ==
  LET c == IF q.header.kind = "json" /\ q.header.value.challenge # NoChallenge
             THEN q.header.value.challenge ELSE cc.challenge
  IN IF cc.threw THEN Throw(q, cc.message)
     ELSE Respond402([q EXCEPT !.x402Challenge = c], c, verificationError)

\* IssueChallenge with a slip: the merchant of the new challenge is the
\* one named in the challenge the client embedded.
IssueChallengePayerTerms(q, cc, verificationError) ==
  LET c == IF q.header.kind = "json" /\ q.header.value.challenge # NoChallenge
             THEN [cc.challenge EXCEPT !.merchant = q.header.value.challenge.merchant]
             ELSE cc.challenge
  IN IF cc.threw THEN Throw(q, cc.message)
     ELSE Respond402([q EXCEPT !.x402Challenge = c], c, verificationError)

\* Lines 152-154 and 161-169: a new challenge, stored on the request and
\* answered with 402.
IssueChallenge(q, cc, verificationError) ==
  IF cc.threw THEN Throw(q, cc.message)
  ELSE Respond402([q EXCEPT !.x402Challenge = cc.challenge], cc.challenge,
                  verificationError)

\* AfterVerification with a slip: next() is called before the request and
\* the response are marked.
AfterVerificationNextFirst(q, v, cc) ==
  LET q1 == [q EXCEPT !.verification = v, !.verifyUsed = TRUE]
  IN IF v = NoResult
       THEN Throw(q1, <<"Cannot read properties of undefined (reading 'valid')">>)
     ELSE IF ~v.valid
       THEN IssueChallenge(q1, cc, v.error)
     ELSE ResSetHeader([q1 EXCEPT !.nextCalls = @ + 1,
                                  !.log = Append(@, "next"),
                                  !.x402Verified = TRUE],
                       "X-Payment-Response", "verified")

\* AfterVerification with a slip: the result's valid flag is not looked at.
AfterVerificationUnchecked(q, v, cc) ==
  LET q1 == [q EXCEPT !.verification = v, !.verifyUsed = TRUE]
      q2 == ResSetHeader([q1 EXCEPT !.x402Verified = TRUE],
                         "X-Payment-Response", "verified")
  IN IF q2.exc THEN q2
     ELSE [q2 EXCEPT !.nextCalls = @ + 1, !.log = Append(@, "next")]

\* Lines 160-175: the middleware once verifyPaymentHeader has resolved to v.
\* cc is createChallenge(routeConfig) as it would evaluate now.
AfterVerification(q, v, cc) ==
  LET q1 == [q EXCEPT !.verification = v, !.verifyUsed = TRUE]
  IN IF v = NoResult
       THEN Throw(q1, <<"Cannot read properties of undefined (reading 'valid')">>)
     ELSE IF ~v.valid
       THEN IssueChallenge(q1, cc, v.error)
     ELSE LET q2 == ResSetHeader([q1 EXCEPT !.x402Verified = TRUE],
                                 "X-Payment-Response", "verified")
          IN IF q2.exc THEN q2
             ELSE [q2 EXCEPT !.nextCalls = @ + 1, !.log = Append(@, "next")]

(***************************************************************************)
(* Server: inputs                                                          *)
(***************************************************************************)

\* PaymentConfig values given to configureX402.
CfgInstant ==
  [merchantAddress |-> "0xMerchant", chainId |-> DefaultChainId,
   currency |-> "USDC", mode |-> "instant"]
CfgEmbedded ==
  [merchantAddress |-> "0xMerchant", chainId |-> UndefNum,
   currency |-> Undef, mode |-> "embedded"]
Configs == {CfgInstant, CfgEmbedded}

\* The process environment: with and without a merchant address.
Envs == {[address |-> Undef], [address |-> "0xMerchant"]}

\* RoutePaymentConfig values given to x402Middleware.
RouteBasic ==
  [price |-> "0.01", currency |-> Undef, chainId |-> UndefNum,
   description |-> Undef]
RoutePremium ==
  [price |-> "0.02", currency |-> "ETH", chainId |-> 1,
   description |-> "premium"]
Routes == {RouteBasic}

\* Challenges a client may embed: the one the server issues for RouteBasic,
\* and one the client made up (another price, paid to the client itself).
IssuedChallenge ==
  [price |-> "0.01", currency |-> "USDC", chain_id |-> DefaultChainId,
   merchant |-> "0xMerchant", timestamp |-> 1, description |-> Undef,
   nonce |-> 1]
ForgedChallenge ==
  [IssuedChallenge EXCEPT !.price = "0.00", !.merchant = "0xPayer"]
Payment(signature, signer, challenge) ==
  JsonHeader([signature |-> signature, signer |-> signer,
              challenge |-> challenge])

SignatureOver(challenge) == SignWith("K", encodePaymentMessage(challenge).hash)

\* The payer signs the issued challenge / a challenge of its own making.
HonestPayment ==
  Payment(SignatureOver(IssuedChallenge), "0xpayer", IssuedChallenge)
ForgedPayment ==
  Payment(SignatureOver(ForgedChallenge), "0xpayer", ForgedChallenge)
\* A signature over another challenge, another signer than the one who
\* signed, a signature that is no signature, an object without signer and
\* challenge.
MismatchedPayment ==
  Payment(SignatureOver(ForgedChallenge), "0xpayer", IssuedChallenge)
WrongSignerPayment ==
  Payment(SignatureOver(IssuedChallenge), "0xOther", IssuedChallenge)
MalformedPayment ==
  Payment(MalformedSignature, "0xpayer", IssuedChallenge)
IncompletePayment == Payment(MalformedSignature, Undef, NoChallenge)

\* A signed assertion whose challenge names a merchant that is no address:
\* hashing it throws.
UnhashableChallenge == [IssuedChallenge EXCEPT !.merchant = NotAnAddress]
UnhashablePayment ==
  Payment(SignatureOver(IssuedChallenge), "0xpayer", UnhashableChallenge)

\* The honest assertion with the signer's address in its checksummed
\* spelling.
ChecksumPayment ==
  Payment(SignatureOver(IssuedChallenge), "0xPayer", IssuedChallenge)

\* X-PAYMENT header values of incoming requests.
HeaderPool ==
  {AbsentHeader, EmptyHeader, TextHeader, IncompletePayment, HonestPayment,
   ForgedPayment, MismatchedPayment, WrongSignerPayment, MalformedPayment}

(***************************************************************************)
(* Server: state and actions                                               *)
(***************************************************************************)

VARIABLES
  globalConfig,          \* let globalConfig
  globalWalletProvider,  \* let globalWalletProvider
  env,                   \* process.env
  routeConfig,           \* the routeConfig the middleware was created with
  strictRes,             \* the kind of response object requests come with
  now,                   \* Math.floor(Date.now() / 1000)
  reqs,                  \* the invocations of the middleware, in arrival order
  lastConfigure,         \* the application's last configureX402 call and
                         \* whether it threw
  call,                  \* the logical call a client transport is performing
  globalThisFetch        \* globalThis.fetch: the number of x402Fetch wrappers
                         \* around the platform's fetch

serverVars ==
  <<globalConfig, globalWalletProvider, env, routeConfig, strictRes, now, reqs,
    lastConfigure>>

\* No configureX402 call has been observed.
NoCall == [none |-> TRUE]

clientVars == <<call, globalThisFetch>>

vars == <<serverVars, clientVars>>

InitServer ==
  /\ globalConfig = NoConfig
  /\ globalWalletProvider = NoProvider
  /\ env \in Envs
  /\ routeConfig \in Routes
  /\ strictRes \in BOOLEAN
  /\ now = 1
  /\ reqs = <<>>
  /\ lastConfigure = NoCall

\* configureX402Runs with a slip: a call without a walletProvider keeps the
\* provider configured before.
configureX402KeepingProvider(config, walletProvider) ==
  LET l == loadConfigFromEnv(env)
      w == IF walletProvider = NoProvider THEN globalWalletProvider
           ELSE walletProvider
  IN /\ IF config # NoConfig
          THEN /\ globalConfig' = config
               /\ globalWalletProvider' = w
          ELSE IF l.threw
            THEN UNCHANGED <<globalConfig, globalWalletProvider>>
            ELSE /\ globalConfig' = l.config
                 /\ globalWalletProvider' = w
     /\ UNCHANGED <<env, routeConfig, strictRes, now, reqs>>

\* configureX402(config?, walletProvider?): what it does to the globals.
configureX402Runs(config, walletProvider) ==
  LET l == loadConfigFromEnv(env)
  IN /\ IF config # NoConfig
          THEN /\ globalConfig' = config
               /\ globalWalletProvider' = walletProvider
          ELSE IF l.threw
            THEN UNCHANGED <<globalConfig, globalWalletProvider>>
            ELSE /\ globalConfig' = l.config
                 /\ globalWalletProvider' = walletProvider
     /\ UNCHANGED <<env, routeConfig, strictRes, now, reqs>>

\* A call whose outcome the model does not keep.
configureX402(config, walletProvider) ==
  /\ configureX402Runs(config, walletProvider)
  /\ UNCHANGED <<clientVars, lastConfigure>>

\* The application calls configureX402 and sees it return or throw.
ApplicationConfigures(config, walletProvider) ==
  /\ configureX402Runs(config, walletProvider)
  /\ lastConfigure' =
       [config |-> config, walletProvider |-> walletProvider,
        threw |-> config = NoConfig /\ loadConfigFromEnv(env).threw]
  /\ UNCHANGED clientVars

\* The clock advances (between requests).
Tick ==
  /\ reqs = <<>>
  /\ now < MaxNow
  /\ now' = now + 1
  /\ UNCHANGED <<globalConfig, globalWalletProvider, env, routeConfig,
                 strictRes, reqs, lastConfigure,
                 clientVars>>

\* x402Middleware(routeConfig)(req, res, next) from its entry to its return
\* or to the await of the wallet provider's verifyPayment: what it does to
\* the server's state.
x402MiddlewareRuns(header, nonce) ==
  LET q0 == NewInvocation(header, strictRes)
      cc0 == createChallenge(routeConfig, globalConfig, env, now, nonce)
      vs == verifyPaymentHeader(header, globalConfig, env, globalWalletProvider)
      cc1 == createChallenge(routeConfig, vs.gc, env, now, nonce)
  IN /\ IF Falsy(header)
          THEN /\ reqs' = Append(reqs, Catch(IssueChallenge(q0, cc0, NoText)))
               /\ globalConfig' = cc0.gc
        ELSE IF vs.delegated
          THEN /\ reqs' = Append(reqs, [q0 EXCEPT !.pc = "awaiting",
                                         !.provider = globalWalletProvider])
               /\ globalConfig' = vs.gc
          ELSE /\ reqs' = Append(reqs, Catch(AfterVerification(q0, vs.result, cc1)))
               /\ globalConfig' = IF vs.result.valid THEN vs.gc ELSE cc1.gc
     /\ UNCHANGED <<globalWalletProvider, env, routeConfig, strictRes, now,
                    lastConfigure>>

\* A request that no client of this model is waiting for.
x402Middleware(header, nonce) ==
  /\ x402MiddlewareRuns(header, nonce)
  /\ UNCHANGED clientVars

\* What the verifyPayment call awaited by invocation q settles with.
SettleOutcomes(q) ==
  LET a == q.header.value
  IN IF q.provider = "privy"
       THEN {[threw |-> FALSE, message |-> NoText,
              result |-> privyVerifyPayment(a.challenge, a.signature, a.signer)]}
       ELSE ProviderOutcomes(a.signer)

\* ProviderSettles with a slip: the request being verified is kept in one
\* place for all invocations, so an invocation resumes with the verdict on
\* the latest request that carried an assertion.
ProviderSettlesLatest(i, nonce) ==
  /\ reqs[i].pc = "awaiting"
  /\ \E outcome \in
         SettleOutcomes(
           [reqs[i] EXCEPT !.header =
              reqs[CHOOSE k \in 1..Len(reqs) :
                     /\ reqs[k].header.kind = "json"
                     /\ \A m \in (k + 1)..Len(reqs) :
                          reqs[m].header.kind # "json"].header]) :
       LET v == verifyPaymentHeaderResume(outcome)
           cc == createChallenge(routeConfig, globalConfig, env, now, nonce)
       IN /\ reqs' = [reqs EXCEPT ![i] = Catch(AfterVerification(reqs[i], v, cc))]
          /\ globalConfig' = IF v # NoResult /\ ~v.valid THEN cc.gc
                             ELSE globalConfig
  /\ UNCHANGED <<globalWalletProvider, env, routeConfig, strictRes, now, lastConfigure,
                 clientVars>>

\* The awaited verifyPayment of invocation i settles and the middleware
\* runs to its end.
ProviderSettles(i, nonce) ==
  /\ reqs[i].pc = "awaiting"
  /\ \E outcome \in SettleOutcomes(reqs[i]) :
       LET v == verifyPaymentHeaderResume(outcome)
           cc == createChallenge(routeConfig, globalConfig, env, now, nonce)
       IN /\ reqs' = [reqs EXCEPT ![i] = Catch(AfterVerification(reqs[i], v, cc))]
          /\ globalConfig' = IF v # NoResult /\ ~v.valid THEN cc.gc
                             ELSE globalConfig
  /\ UNCHANGED <<globalWalletProvider, env, routeConfig, strictRes, now, lastConfigure,
                 clientVars>>

\* The invocation i has returned and its request is forgotten.
Forget(i) ==
  /\ reqs[i].pc = "done"
  /\ reqs' = SubSeq(reqs, 1, i - 1) \o SubSeq(reqs, i + 1, Len(reqs))
  /\ UNCHANGED <<globalConfig, globalWalletProvider, env, routeConfig,
                 strictRes, now, lastConfigure,
                 clientVars>>

\* The server with requests whose headers come from pool, at most cap
\* invocations remembered at a time.
NextServer(pool, cap) ==
  \/ \E c \in Configs \cup {NoConfig}, w \in Providers \cup {NoProvider} :
       configureX402(c, w)
  \/ Tick
  \/ \E h \in pool, n \in Nonces : Len(reqs) < cap /\ x402Middleware(h, n)
  \/ \E i \in 1..Len(reqs), n \in Nonces : ProviderSettles(i, n)
  \/ \E i \in 1..Len(reqs) : Forget(i)

(***************************************************************************)
(* Client: requests, responses, signers                                    *)
(***************************************************************************)


\* Request headers as a record of the header names in play; a Headers
\* object is case-insensitive in the names, so X-PAYMENT and x-payment are
\* one entry.
NoHeaders == [authorization |-> Undef, xpayment |-> AbsentHeader]
CallerHeaders ==
  {NoHeaders,
   [authorization |-> "Bearer token123", xpayment |-> AbsentHeader],
   [authorization |-> "Bearer token123", xpayment |-> TextHeader]}

\* The first argument of fetch: a URL, or a Request object with its own
\* method, headers and body.
UrlInput ==
  [isRequest |-> FALSE, url |-> "/protected", headers |-> NoHeaders,
   method |-> "GET", body |-> Undef]
RequestInputs ==
  {[isRequest |-> TRUE, url |-> "/protected", headers |-> h,
    method |-> mb[1], body |-> mb[2]] :
     h \in CallerHeaders, mb \in {<<"GET", Undef>>, <<"POST", "payload">>}}

\* RequestInit / the options of X402Client.request / an axios config.
NoInit ==
  [hasHeaders |-> FALSE, headers |-> NoHeaders, method |-> Undef,
   body |-> Undef, signal |-> Undef]
Inits ==
  {NoInit}
    \cup {[hasHeaders |-> TRUE, headers |-> h, method |-> mb[1],
           body |-> mb[2], signal |-> sg] :
            h \in CallerHeaders,
            mb \in {<<Undef, Undef>>, <<"POST", "payload">>},
            sg \in {Undef, "callerSignal"}}

\* What the transport does with fetch(input, init): members of init
\* override those of a Request input, init.headers replacing all of its
\* headers.
WireRequest(input, init) ==
  [url |-> input.url,
   method |-> IF init.method # Undef THEN init.method ELSE input.method,
   headers |-> IF init.hasHeaders THEN init.headers ELSE input.headers,
   body |-> IF init.body # Undef THEN init.body ELSE input.body,
   signal |-> init.signal]

\* new Headers(init?.headers); headers.set("X-PAYMENT", paymentHeader)
WithPayment(init, paymentHeader) ==
  [(IF init.hasHeaders THEN init.headers ELSE NoHeaders)
     EXCEPT !.xpayment = paymentHeader]

\* A response of the transport to its n-th call, or its failure.
Response(n, status, parsable, challenge) ==
  [failed |-> FALSE, n |-> n, status |-> status, parsable |-> parsable,
   challenge |-> challenge]
NetworkError(n) ==
  [failed |-> TRUE, n |-> n, status |-> 0, parsable |-> FALSE,
   challenge |-> NoChallenge]
\* The n-th call rejected with an AbortError: its signal was aborted.
Aborted(n) == [NetworkError(n) EXCEPT !.status = 0 - 1]
NoResponse == [none |-> TRUE]

Responses(n) ==
  {NetworkError(n),
   Response(n, 200, TRUE, NoChallenge),
   Response(n, 500, TRUE, NoChallenge),
   Response(n, 402, TRUE, IssuedChallenge),
   Response(n, 402, TRUE, NoChallenge),
   Response(n, 402, FALSE, NoChallenge)}

\* What a call ends with: a response returned, or an Error raised.
Returned(r) == [kind |-> "response", response |-> r, message |-> NoText]
Raised(message) == [kind |-> "error", response |-> NoResponse, message |-> message]
Pending == [kind |-> "pending", response |-> NoResponse, message |-> NoText]

\* The text of a thrown error contains a given part.
Contains(message, part) == \E i \in 1..Len(message) : message[i] = part

\* What a signer settles with.  rpcHandler of X402Client: a
\* PaymentSignature, null, or a rejection.
NullSignature == [none |-> TRUE]
PaymentSignature(challenge) ==
  [signature |-> SignatureOver(challenge), signer |-> "0xpayer",
   challenge |-> challenge, messageHash |-> encodePaymentMessage(challenge).hash]
RpcOutcomes(challenge) ==
  {[threw |-> FALSE, value |-> PaymentSignature(challenge)],
   [threw |-> FALSE, value |-> NullSignature],
   [threw |-> TRUE, value |-> NullSignature]}

\* handleX402 of the fetch and axios wrappers: the header value, a falsy
\* value (null, the empty string), or a rejection.
HandlerOutcomes(challenge) ==
  {[threw |-> FALSE, value |-> Payment(SignatureOver(challenge), "0xpayer", challenge)],
   [threw |-> FALSE, value |-> AbsentHeader],
   [threw |-> FALSE, value |-> EmptyHeader],
   [threw |-> TRUE, value |-> AbsentHeader]}

\* JSON.stringify of a number: NaN (like the infinities) is written as null.
JsonNumber(x) == IF x = NaN THEN NullNum ELSE x

\* JSON.stringify of an object with signature, signer and challenge: the
\* text, kept as the object JSON.parse makes of it.  A member whose value is
\* undefined is left out and reads as undefined again.
JsonStringify(obj) ==
  JsonHeader([obj EXCEPT !.challenge =
                IF @ = NoChallenge THEN @
                ELSE [@ EXCEPT !.chain_id = JsonNumber(@),
                               !.timestamp = JsonNumber(@)]])

\* createPaymentHeader with a slip: the whole PaymentSignature is written.
createPaymentHeaderWithHash(signature) == JsonStringify(signature)

\* X402Client.createPaymentHeader: JSON.stringify of signature, signer and
\* challenge (messageHash is left out).
createPaymentHeader(signature) ==
  JsonStringify([signature |-> signature.signature, signer |-> signature.signer,
                 challenge |-> signature.challenge])

(***************************************************************************)
(* Client: X402Client.request, x402Fetch, the axios interceptor            *)
(***************************************************************************)

IdleCall ==
  [kind |-> "none", pc |-> "idle", input |-> UrlInput, init |-> NoInit,
   hasHandler |-> FALSE, acceptAll |-> FALSE, wire |-> <<>>, held |-> <<>>,
   received |-> <<>>, signerCalls |-> <<>>, signerResults |-> <<>>,
   timers |-> {}, result |-> Pending]

\* A call of the underlying transport (fetch, baseFetch, the axios adapter).
Send(c, w) == [c EXCEPT !.wire = Append(@, w), !.pc = "transport"]
\* The logical call returns or throws.
Finish(c, result) == [c EXCEPT !.pc = "done", !.result = result]
\* The signer (rpcHandler / handleX402) is invoked with the challenge of
\* the 402 response r, which the frame keeps.
AskSigner(c, r) ==
  [c EXCEPT !.pc = "signing", !.held = Append(@, r),
            !.signerCalls = Append(@, r.challenge)]

\* `Failed to handle 402 challenge: ${error.message}`
Wrapped(message) == <<"Failed to handle 402 challenge: ">> \o message

\* The response the innermost frame holds.
Held(c) == c.held[Len(c.held)]

\* X402Client.request: the initial fetch.
ClientStart(options, hasHandler) ==
  Send([IdleCall EXCEPT !.kind = "client", !.init = options,
                        !.hasHandler = hasHandler],
       WireRequest(UrlInput, [options EXCEPT !.signal = "controller"]))

\* ClientOnResponse with a slip: without an rpcHandler the 402 is returned.
ClientOnResponseSilent(c, r) ==
  IF Len(c.wire) = 1
    THEN IF r.failed THEN Finish(c, Raised(<<"fetch failed">>))
         ELSE IF r.status # 402 THEN Finish(c, Returned(r))
         ELSE IF ~r.parsable
           THEN Finish(c, Raised(Wrapped(<<"Unexpected token">>)))
         ELSE IF r.challenge = NoChallenge
           THEN Finish(c, Raised(Wrapped(<<"Invalid 402 challenge format">>)))
         ELSE IF ~c.hasHandler THEN Finish(c, Returned(r))
         ELSE AskSigner(c, r)
    ELSE IF r.failed THEN Finish(c, Raised(Wrapped(<<"fetch failed">>)))
         ELSE Finish(c, Returned(r))

\* ClientOnResponse with a slip: a status that is not ok raises.
ClientOnResponseThrowing(c, r) ==
  IF Len(c.wire) = 1
    THEN IF r.failed THEN Finish(c, Raised(<<"fetch failed">>))
         ELSE IF r.status # 402
           THEN IF r.status \in 200..299 THEN Finish(c, Returned(r))
                ELSE Finish(c, Raised(<<"HTTP error">>))
         ELSE IF ~r.parsable
           THEN Finish(c, Raised(Wrapped(<<"Unexpected token">>)))
         ELSE IF r.challenge = NoChallenge
           THEN Finish(c, Raised(Wrapped(<<"Invalid 402 challenge format">>)))
         ELSE IF ~c.hasHandler
           THEN Finish(c, Raised(Wrapped(<<"No RPC handler configured. Use setRpcHandler() or provide rpcHandler in constructor.">>)))
         ELSE AskSigner(c, r)
    ELSE IF r.failed THEN Finish(c, Raised(Wrapped(<<"fetch failed">>)))
         ELSE Finish(c, Returned(r))

\* ClientOnResponse with a slip: the response to the retry is handled like
\* the first response.
ClientOnResponseRetrying(c, r) ==
  IF r.failed THEN Finish(c, Raised(<<"fetch failed">>))
  ELSE IF r.status # 402 THEN Finish(c, Returned(r))
  ELSE IF ~r.parsable
    THEN Finish(c, Raised(Wrapped(<<"Unexpected token">>)))
  ELSE IF r.challenge = NoChallenge
    THEN Finish(c, Raised(Wrapped(<<"Invalid 402 challenge format">>)))
  ELSE AskSigner(c, r)

\* X402Client.request: a fetch has settled with r.
ClientOnResponse(c, r) ==
  IF Len(c.wire) = 1
    THEN IF r.failed THEN Finish(c, Raised(<<"fetch failed">>))
         ELSE IF r.status # 402 THEN Finish(c, Returned(r))
         ELSE IF ~r.parsable
           THEN Finish(c, Raised(Wrapped(<<"Unexpected token">>)))
         ELSE IF r.challenge = NoChallenge
           THEN Finish(c, Raised(Wrapped(<<"Invalid 402 challenge format">>)))
         ELSE IF ~c.hasHandler
           THEN Finish(c, Raised(Wrapped(<<"No RPC handler configured. Use setRpcHandler() or provide rpcHandler in constructor.">>)))
         ELSE AskSigner(c, r)
    ELSE IF r.failed THEN Finish(c, Raised(Wrapped(<<"fetch failed">>)))
         ELSE Finish(c, Returned(r))

\* ClientOnSigned with a slip: without a signature the 402 is returned.
ClientOnSignedLenient(c, o) ==
  IF o.threw \/ o.value = NullSignature THEN Finish(c, Returned(Held(c)))
  ELSE Send(c, WireRequest(UrlInput,
                 [c.init EXCEPT !.hasHeaders = TRUE,
                                !.headers = WithPayment(c.init, createPaymentHeader(o.value)),
                                !.signal = "retryController"]))

\* X402Client.request: rpcHandler has settled with o.
ClientOnSigned(c, o) ==
  IF o.threw THEN Finish(c, Raised(Wrapped(<<"signer rejected">>)))
  ELSE IF o.value = NullSignature
    THEN Finish(c, Raised(Wrapped(<<"Failed to obtain payment signature">>)))
  ELSE Send(c, WireRequest(UrlInput,
                 [c.init EXCEPT !.hasHeaders = TRUE,
                                !.headers = WithPayment(c.init, createPaymentHeader(o.value)),
                                !.signal = "retryController"]))

\* setTimeout(() => controller.abort(), this.timeout) before a fetch.
ArmTimer(c, id) ==
  IF c.pc = "transport" THEN [c EXCEPT !.timers = @ \cup {id}] ELSE c

\* The timer X402Client.request has set for the fetch in flight.
CurrentTimer(c) == IF Len(c.wire) = 1 THEN "timeoutId" ELSE "retryTimeoutId"

\* X402Client.request from its entry to the await of the initial fetch.
ClientRequest(options, hasHandler) ==
  ArmTimer(ClientStart(options, hasHandler), "timeoutId")

\* ClientFetchSettled with a slip: the timer is cleared after a fetch that
\* succeeded only.
ClientFetchSettledOnSuccess(c, r) ==
  ClientOnResponse(IF r.failed THEN c
                   ELSE [c EXCEPT !.timers = @ \ {CurrentTimer(c)}], r)

\* X402Client.request: a fetch has settled; finally { clearTimeout(...) }
\* runs before anything else.
ClientFetchSettled(c, r) ==
  ClientOnResponse([c EXCEPT !.timers = @ \ {CurrentTimer(c)}], r)

\* X402Client.request: rpcHandler has settled; a retry gets its own timer.
ClientSignerSettled(c, o) ==
  IF ClientOnSigned(c, o).pc = "transport"
    THEN [ClientOnSigned(c, o) EXCEPT !.timers = @ \cup {"retryTimeoutId"}]
    ELSE ClientOnSigned(c, o)

\* x402Fetch(input, init, baseFetch, handleX402): up to the initial fetch.
FetchStart(input, init, hasHandler) ==
  LET c == [IdleCall EXCEPT !.kind = "fetch", !.input = input, !.init = init,
                            !.hasHandler = hasHandler]
  IN IF ~hasHandler
       THEN Finish(c, Raised(<<"handleX402 must be provided. Call initX402Fetch() first or pass handleX402 parameter.">>))
       ELSE Send(c, WireRequest(input, init))

\* x402Fetch: a call of fetchFn has settled with r.
FetchOnResponse(c, r) ==
  IF Len(c.wire) = 1
    THEN IF r.failed THEN Finish(c, Raised(<<"fetch failed">>))
         ELSE IF r.status # 402 THEN Finish(c, Returned(r))
         ELSE IF ~r.parsable \/ r.challenge = NoChallenge
           THEN Finish(c, Returned(r))
         ELSE AskSigner(c, r)
    ELSE IF r.failed THEN Finish(c, Returned(Held(c)))
         ELSE Finish(c, Returned(r))

\* FetchOnSigned with a slip: a falsy header value raises.
FetchOnSignedRaising(c, o) ==
  IF o.threw THEN Finish(c, Returned(Held(c)))
  ELSE IF Falsy(o.value)
    THEN Finish(c, Raised(<<"Failed to obtain payment signature">>))
  ELSE Send(c, WireRequest(c.input,
                 [c.init EXCEPT !.hasHeaders = TRUE,
                                !.headers = WithPayment(c.init, o.value)]))

\* x402Fetch: handleX402 has settled with o.
FetchOnSigned(c, o) ==
  IF o.threw \/ Falsy(o.value) THEN Finish(c, Returned(Held(c)))
  ELSE Send(c, WireRequest(c.input,
                 [c.init EXCEPT !.hasHeaders = TRUE,
                                !.headers = WithPayment(c.init, o.value)]))

\* The body of a Request object is consumed by the first fetch: fetching
\* the same Request again without a body in init fails.
BodyUsed(c) ==
  c.kind = "fetch" /\ c.input.isRequest /\ c.input.body # Undef
    /\ c.init.body = Undef /\ Len(c.wire) > 1

\* instance.request(config) of an axios instance with the interceptor.
AxiosStart(config, acceptAll) ==
  Send([IdleCall EXCEPT !.kind = "axios", !.init = config,
                        !.hasHandler = TRUE, !.acceptAll = acceptAll],
       WireRequest(UrlInput, config))

\* axios settles a request: validateStatus (by default 2xx only) sends the
\* response to the fulfilled interceptor, anything else to the rejected
\* one, which re-raises.  A rejection of a nested (retried) request is
\* caught by the frame that awaits it, which returns the response it holds.
AxiosOnResponse(c, r) ==
  IF r.failed \/ (~c.acceptAll /\ ~(r.status \in 200..299))
    THEN IF c.held = <<>>
           THEN Finish(c, Raised(IF r.failed THEN <<"Network Error">>
                                 ELSE <<"Request failed with status code">>))
           ELSE Finish(c, Returned(Held(c)))
  ELSE IF r.status # 402 THEN Finish(c, Returned(r))
  ELSE IF ~r.parsable \/ r.challenge = NoChallenge THEN Finish(c, Returned(r))
  ELSE AskSigner(c, r)

\* The interceptor: handleX402 has settled with o.
AxiosOnSigned(c, o) ==
  IF o.threw \/ Falsy(o.value) THEN Finish(c, Returned(Held(c)))
  ELSE Send(c, WireRequest(UrlInput,
                 [c.init EXCEPT !.hasHeaders = TRUE,
                                !.headers = WithPayment(c.init, o.value)]))

(***************************************************************************)
(* Client: actions                                                         *)
(***************************************************************************)

StartCall ==
  /\ call.pc = "idle"
  /\ \/ \E o \in Inits, h \in BOOLEAN : call' = ClientRequest(o, h)
     \/ \E i \in {UrlInput} \cup RequestInputs, o \in Inits, h \in BOOLEAN :
          call' = FetchStart(i, o, h)
     \/ \E o \in Inits, a \in BOOLEAN : call' = AxiosStart(o, a)
  /\ UNCHANGED <<serverVars, globalThisFetch>>

TransportSettles ==
  /\ call.pc = "transport"
  /\ \E r \in Responses(Len(call.wire)) :
       /\ BodyUsed(call) => r.failed
       /\ LET c == [call EXCEPT !.received = Append(@, r)]
          IN call' = CASE c.kind = "client" -> ClientFetchSettled(c, r)
                       [] c.kind = "fetch" -> FetchOnResponse(c, r)
                       [] c.kind = "axios" -> AxiosOnResponse(c, r)
  /\ UNCHANGED <<serverVars, globalThisFetch>>

SignerSettles ==
  /\ call.pc = "signing"
  /\ call.kind = "axios" => Len(call.wire) < MaxWire
  /\ \E o \in IF call.kind = "client" THEN RpcOutcomes(Held(call).challenge)
              ELSE HandlerOutcomes(Held(call).challenge) :
       LET c == [call EXCEPT !.signerResults = Append(@, o)]
       IN call' = CASE c.kind = "client" -> ClientSignerSettled(c, o)
                    [] c.kind = "fetch" -> FetchOnSigned(c, o)
                    [] c.kind = "axios" -> AxiosOnSigned(c, o)
  /\ UNCHANGED <<serverVars, globalThisFetch>>

\* A timer of X402Client.request fires: controller.abort() makes the fetch
\* it belongs to reject if that fetch is still in flight, and does nothing
\* otherwise.
TimeoutFires ==
  /\ call.kind = "client"
  /\ \E id \in call.timers :
       LET c == [call EXCEPT !.timers = @ \ {id}]
           r == Aborted(Len(call.wire))
       IN call' = IF call.pc = "transport" /\ id = CurrentTimer(call)
                    THEN ClientFetchSettled([c EXCEPT !.received = Append(@, r)], r)
                    ELSE c
  /\ UNCHANGED <<serverVars, globalThisFetch>>

NextClient == StartCall \/ TransportSettles \/ SignerSettles \/ TimeoutFires

InitClient ==
  /\ globalConfig = NoConfig
  /\ globalWalletProvider = NoProvider
  /\ env = [address |-> Undef]
  /\ routeConfig = RouteBasic
  /\ strictRes = TRUE
  /\ now = 1
  /\ reqs = <<>>
  /\ lastConfigure = NoCall
  /\ call = IdleCall
  /\ globalThisFetch = 0

(***************************************************************************)
(* Client: the global fetch after initX402Fetch                            *)
(***************************************************************************)

\* A logical call through globalThis.fetch.  depth is the number of
\* x402Fetch frames between the caller and the platform's fetch; frames
\* are the ones entered so far, outermost first, each with the init it was
\* called with and the 402 response it holds (none before its first
\* fetchFn call has settled).
GlobalIdle ==
  [kind |-> "global", pc |-> "idle", input |-> UrlInput, init |-> NoInit,
   depth |-> 0, frames |-> <<>>, wire |-> <<>>, received |-> <<>>,
   signerCalls |-> <<>>, signerResults |-> <<>>, result |-> Pending]

GlobalInits ==
  {NoInit,
   [hasHeaders |-> TRUE, headers |-> [authorization |-> "Bearer token123",
                                      xpayment |-> AbsentHeader],
    method |-> "POST", body |-> "payload", signal |-> Undef]}

\* What a fetchFn call settles with: a rejection, or a response whose body
\* has or has not been read yet.
Settled(r, used) == [threw |-> r.failed, response |-> r, used |-> used]

\* fetchFn(input, init) of the innermost frame entered: every wrapper
\* beneath it is entered with the same arguments, and the innermost one
\* calls the platform's fetch.
Descend(c, init) ==
  Send([c EXCEPT !.frames =
          @ \o [k \in 1..(c.depth - Len(@)) |-> [init |-> init, held |-> NoResponse]]],
       WireRequest(c.input, init))

\* The fetchFn call awaited by the innermost frame has settled with o: the
\* frame runs on, and when it returns or throws, so does the frame that
\* awaits it.  response.json() fails on a body that was read before.
RECURSIVE Unwind(_, _)
Unwind(c, o) ==
  IF c.frames = <<>>
    THEN Finish(c, IF o.threw THEN Raised(<<"fetch failed">>)
                   ELSE Returned(o.response))
    ELSE LET f == c.frames[Len(c.frames)]
             up == [c EXCEPT !.frames = SubSeq(@, 1, Len(@) - 1)]
             r == o.response
         IN IF f.held = NoResponse
              THEN IF o.threw \/ r.status # 402 THEN Unwind(up, o)
                   ELSE IF o.used \/ ~r.parsable \/ r.challenge = NoChallenge
                     THEN Unwind(up, Settled(r, TRUE))
                   ELSE [c EXCEPT !.pc = "signing",
                                  !.frames[Len(c.frames)].held = r,
                                  !.signerCalls = Append(@, r.challenge)]
              ELSE IF o.threw THEN Unwind(up, Settled(f.held, TRUE))
                   ELSE Unwind(up, o)

\* handleX402 of the innermost frame has settled with o.
GlobalOnSigned(c, o) ==
  LET f == c.frames[Len(c.frames)]
  IN IF o.threw \/ Falsy(o.value)
       THEN Unwind([c EXCEPT !.frames = SubSeq(@, 1, Len(@) - 1)],
                   Settled(f.held, TRUE))
       ELSE Descend(c, [f.init EXCEPT !.hasHeaders = TRUE,
                                      !.headers = WithPayment(f.init, o.value)])

\* globalThis.fetch(input, init) with layers wrappers installed.
GlobalFetchStart(input, init, layers) ==
  Descend([GlobalIdle EXCEPT !.input = input, !.init = init, !.depth = layers],
          init)

\* x402Fetch(input, init) without baseFetch and handleX402: the handler is
\* that of globalX402Config, fetchFn is globalThis.fetch.
X402FetchStart(input, init, layers) ==
  IF layers = 0
    THEN Finish([GlobalIdle EXCEPT !.input = input, !.init = init],
                Raised(<<"handleX402 must be provided. Call initX402Fetch() first or pass handleX402 parameter.">>))
    ELSE GlobalFetchStart(input, init, layers + 1)

\* initX402Fetch(config): globalThis.fetch becomes a wrapper around
\* config.fetch (here the platform's fetch) or, without it, around the
\* current globalThis.fetch.
initX402Fetch(withFetch) ==
  /\ call.pc = "idle"
  /\ globalThisFetch < MaxLayers
  /\ globalThisFetch' = IF withFetch THEN 1 ELSE globalThisFetch + 1
  /\ UNCHANGED <<serverVars, call>>

GlobalStartCall ==
  /\ call.pc = "idle"
  /\ \E init \in GlobalInits :
       \/ /\ globalThisFetch >= 1
          /\ call' = GlobalFetchStart(UrlInput, init, globalThisFetch)
       \/ call' = X402FetchStart(UrlInput, init, globalThisFetch)
  /\ UNCHANGED <<serverVars, globalThisFetch>>

GlobalTransportSettles ==
  /\ call.pc = "transport"
  /\ \E r \in Responses(Len(call.wire)) :
       call' = Unwind([call EXCEPT !.received = Append(@, r)], Settled(r, FALSE))
  /\ UNCHANGED <<serverVars, globalThisFetch>>

GlobalSignerSettles ==
  /\ call.pc = "signing"
  /\ Len(call.wire) < MaxWire
  /\ \E o \in HandlerOutcomes(call.frames[Len(call.frames)].held.challenge) :
       call' = GlobalOnSigned([call EXCEPT !.signerResults = Append(@, o)], o)
  /\ UNCHANGED <<serverVars, globalThisFetch>>

NextGlobal ==
  \/ \E withFetch \in BOOLEAN : initX402Fetch(withFetch)
  \/ GlobalStartCall
  \/ GlobalTransportSettles
  \/ GlobalSignerSettles

(***************************************************************************)
(* X402Client.request against the middleware                               *)
(***************************************************************************)

HandshakeRoutes ==
  {RouteBasic, RoutePremium, [RoutePremium EXCEPT !.chainId = 0]}

HandshakeOptions ==
  {NoInit,
   [hasHeaders |-> TRUE, headers |-> [authorization |-> "Bearer token123",
                                      xpayment |-> AbsentHeader],
    method |-> "POST", body |-> "payload", signal |-> Undef]}

\* What the client's n-th fetch settles with once invocation q has
\* returned: the response the middleware sent, or that of the route
\* handler behind next().
ResponseOf(q, n) ==
  IF q.sent
    THEN Response(n, q.sentStatus, TRUE,
                  IF q.sentStatus = 402 THEN q.sentBody.challenge ELSE NoChallenge)
    ELSE IF q.nextCalls > 0 THEN Response(n, 200, TRUE, NoChallenge)
    ELSE NetworkError(n)

\* The promise of an earlier invocation was rejected and nothing handles
\* the rejection: the runtime warns, or it ends the process.
ProcessMayBeDown == \E i \in 1..Len(reqs) : reqs[i].rejected

\* client.request(url, options) of a client with an rpcHandler, against a
\* configured server.
HandshakeStart ==
  /\ call.pc = "idle"
  /\ globalConfig # NoConfig
  /\ \E o \in HandshakeOptions : call' = ClientRequest(o, TRUE)
  /\ UNCHANGED <<serverVars, globalThisFetch>>

\* The request on the wire reaches the middleware, and its response the
\* client.
ServerAnswers ==
  /\ call.pc = "transport"
  /\ \E n \in Nonces :
       /\ x402MiddlewareRuns(call.wire[Len(call.wire)].headers.xpayment, n)
       /\ LET r == ResponseOf(reqs'[Len(reqs')], Len(call.wire))
          IN call' = ClientFetchSettled([call EXCEPT !.received = Append(@, r)], r)
  /\ UNCHANGED globalThisFetch

\* The request finds no server.
ConnectionRefused ==
  /\ call.pc = "transport"
  /\ ProcessMayBeDown
  /\ LET r == NetworkError(Len(call.wire))
     IN call' = ClientFetchSettled([call EXCEPT !.received = Append(@, r)], r)
  /\ UNCHANGED <<serverVars, globalThisFetch>>

\* The rpcHandler signs the challenge it is given.
SignerSigns ==
  /\ call.pc = "signing"
  /\ LET o == [threw |-> FALSE, value |-> PaymentSignature(Held(call).challenge)]
     IN call' = ClientSignerSettled([call EXCEPT !.signerResults = Append(@, o)], o)
  /\ UNCHANGED <<serverVars, globalThisFetch>>

InitHandshake ==
  /\ globalConfig = NoConfig
  /\ globalWalletProvider = NoProvider
  /\ env \in Envs
  /\ routeConfig \in HandshakeRoutes
  /\ strictRes \in BOOLEAN
  /\ now = 1
  /\ reqs = <<>>
  /\ lastConfigure = NoCall
  /\ call = IdleCall
  /\ globalThisFetch = 0

NextHandshake ==
  \/ \E c \in Configs :
       call.pc = "idle" /\ configureX402(c, NoProvider)
  \/ Tick
  \/ HandshakeStart
  \/ ServerAnswers
  \/ ConnectionRefused
  \/ SignerSigns

SpecHandshake == InitHandshake /\ [][NextHandshake]_vars

\* What an rpcHandler may resolve to: a PaymentSignature with signature,
\* signer and challenge of its own choosing.
WireChallenges ==
  {IssuedChallenge,
   [IssuedChallenge EXCEPT !.description = "premium"],
   [IssuedChallenge EXCEPT !.merchant = "0xmerchant", !.nonce = 2],
   [IssuedChallenge EXCEPT !.chain_id = NaN]}
WireSignatures ==
  {[signature |-> SignatureOver(IssuedChallenge), signer |-> s, challenge |-> c,
    messageHash |-> encodePaymentMessage(IssuedChallenge).hash] :
     s \in {"0xpayer", "0xPayer"}, c \in WireChallenges}

WireSignerSettles ==
  /\ call.pc = "signing"
  /\ \E ps \in WireSignatures :
       LET o == [threw |-> FALSE, value |-> ps]
       IN call' = ClientSignerSettled([call EXCEPT !.signerResults = Append(@, o)], o)
  /\ UNCHANGED <<serverVars, globalThisFetch>>

NextWire ==
  \/ call.pc = "idle" /\ configureX402(CfgInstant, NoProvider)
  \/ HandshakeStart
  \/ ServerAnswers
  \/ WireSignerSettles

SpecWire == InitHandshake /\ [][NextWire]_vars

(***************************************************************************)
(* Specifications                                                          *)
(***************************************************************************)

Init == InitServer /\ call = IdleCall /\ globalThisFetch = 0
Next == NextServer(HeaderPool, MaxReqs)
Spec == Init /\ [][Next]_vars

\* The server under requests that repeat a few headers, two invocations
\* remembered at a time.
ReplayPool == {AbsentHeader, HonestPayment, ForgedPayment}
SpecReplay == Init /\ [][NextServer(ReplayPool, MaxReplayReqs)]_vars

\* The server under requests that all carry an X-PAYMENT header, among them
\* one that cannot be hashed.
VerifyPool ==
  {TextHeader, IncompletePayment, UnhashablePayment, HonestPayment,
   WrongSignerPayment}
SpecVerify == Init /\ [][NextServer(VerifyPool, MaxReqs)]_vars

\* createChallenge under route configs that supply, leave out, or supply a
\* falsy value for currency and chainId, and server configs that differ
\* from the defaults: requests without header, one route per behaviour.
CfgPolygon ==
  [merchantAddress |-> "0xMerchant", chainId |-> 137, currency |-> "DAI",
   mode |-> "instant"]
MergeRoutes ==
  {[price |-> "0.01", currency |-> cu, chainId |-> ch, description |-> d] :
     cu \in {Undef, "", "ETH"}, ch \in {UndefNum, 0, 1},
     d \in {Undef, "premium"}}
InitMerge ==
  /\ globalConfig = NoConfig
  /\ globalWalletProvider = NoProvider
  /\ env \in Envs
  /\ routeConfig \in MergeRoutes
  /\ strictRes \in BOOLEAN
  /\ now = 1
  /\ reqs = <<>>
  /\ lastConfigure = NoCall
  /\ call = IdleCall
  /\ globalThisFetch = 0
NextMerge ==
  \/ \E c \in {CfgPolygon, CfgEmbedded, NoConfig} : configureX402(c, NoProvider)
  \/ \E n \in Nonces : Len(reqs) < MaxReqs /\ x402Middleware(AbsentHeader, n)
  \/ \E i \in 1..Len(reqs) : Forget(i)
SpecMerge == InitMerge /\ [][NextMerge]_vars

\* The server in instant mode under requests that are all answered 402
\* (no header, or an assertion by another signer than the claimed one),
\* several invocations remembered: the challenges issued over time.
NextNonce ==
  \/ \E c \in {CfgInstant, NoConfig} : configureX402(c, NoProvider)
  \/ Tick
  \/ \E h \in {AbsentHeader, WrongSignerPayment}, n \in Nonces :
       Len(reqs) < MaxReplayReqs /\ x402Middleware(h, n)
  \/ \E i \in 1..Len(reqs) : Forget(i)
SpecNonce == Init /\ [][NextNonce]_vars

\* The server verifying locally (no wallet provider is ever configured)
\* under assertions that are complete: rightly signed ones in both
\* spellings of the signer, and wrongly signed ones.
LocalPool ==
  {HonestPayment, ChecksumPayment, ForgedPayment, MismatchedPayment,
   WrongSignerPayment, MalformedPayment}
NextLocal ==
  \/ \E c \in Configs \cup {NoConfig} : configureX402(c, NoProvider)
  \/ Tick
  \/ \E h \in LocalPool, n \in Nonces :
       Len(reqs) < MaxReqs /\ x402Middleware(h, n)
  \/ \E i \in 1..Len(reqs) : Forget(i)
SpecLocal == Init /\ [][NextLocal]_vars

\* Challenges that differ from the issued one in one field, and assertions
\* that pair each of them with the payer's signature over the issued one:
\* such an assertion verifies locally exactly when both hash alike.
HashChallenges ==
  {IssuedChallenge,
   [IssuedChallenge EXCEPT !.nonce = 2],
   [IssuedChallenge EXCEPT !.price = "0.02"],
   [IssuedChallenge EXCEPT !.currency = "ETH"],
   [IssuedChallenge EXCEPT !.chain_id = 1],
   [IssuedChallenge EXCEPT !.merchant = "0xmerchant"],
   [IssuedChallenge EXCEPT !.merchant = "0xOther"],
   [IssuedChallenge EXCEPT !.timestamp = 2],
   [IssuedChallenge EXCEPT !.description = ""],
   [IssuedChallenge EXCEPT !.description = "premium"]}
HashPool ==
  {Payment(SignatureOver(IssuedChallenge), "0xpayer", c) : c \in HashChallenges}
NextHash ==
  \/ \E c \in {CfgInstant, NoConfig} : configureX402(c, NoProvider)
  \/ \E h \in HashPool, n \in Nonces :
       Len(reqs) < MaxReqs /\ x402Middleware(h, n)
  \/ \E i \in 1..Len(reqs) : Forget(i)
SpecHash == Init /\ [][NextHash]_vars

\* Requests of differing content to one route under one configuration:
\* configureX402 is called only while no request is remembered.
\* A challenge of the client's own making under a signature over the
\* issued one.
UnsignedForgery ==
  Payment(SignatureOver(IssuedChallenge), "0xpayer", ForgedChallenge)
DerivePool == {AbsentHeader, TextHeader, UnsignedForgery, WrongSignerPayment}
InitDerive ==
  /\ globalConfig = NoConfig
  /\ globalWalletProvider = NoProvider
  /\ env \in Envs
  /\ routeConfig \in {RouteBasic, RoutePremium}
  /\ strictRes \in BOOLEAN
  /\ now = 1
  /\ reqs = <<>>
  /\ lastConfigure = NoCall
  /\ call = IdleCall
  /\ globalThisFetch = 0
NextDerive ==
  \/ \E c \in {CfgInstant, CfgPolygon, NoConfig} :
       reqs = <<>> /\ configureX402(c, NoProvider)
  \/ Tick
  \/ \E h \in DerivePool, n \in Nonces :
       Len(reqs) < MaxReplayReqs /\ x402Middleware(h, n)
  \/ \E i \in 1..Len(reqs) : Forget(i)
SpecDerive == InitDerive /\ [][NextDerive]_vars

\* Several requests in flight at a time; configureX402 is called only
\* while none is.
ConcurrentPool == {AbsentHeader, HonestPayment, WrongSignerPayment}
NextConcurrent ==
  \/ \E c \in Configs \cup {NoConfig}, w \in Providers \cup {NoProvider} :
       reqs = <<>> /\ configureX402(c, w)
  \/ \E h \in ConcurrentPool, n \in Nonces :
       Len(reqs) < MaxReplayReqs /\ x402Middleware(h, n)
  \/ \E i \in 1..Len(reqs), n \in Nonces : ProviderSettles(i, n)
  \/ \E i \in 1..Len(reqs) : Forget(i)
SpecConcurrent == Init /\ [][NextConcurrent]_vars

\* A configured server that is switched between instant mode and embedded
\* mode with the PrivyWalletProvider, and assertions with all three fields.
PrivyPool ==
  {HonestPayment, ChecksumPayment, WrongSignerPayment, MalformedPayment,
   UnhashablePayment}
NextPrivy ==
  \/ configureX402(CfgInstant, NoProvider)
  \/ configureX402(CfgEmbedded, "privy")
  \/ \E h \in PrivyPool, n \in Nonces :
       /\ globalConfig # NoConfig
       /\ Len(reqs) < MaxReplayReqs
       /\ x402Middleware(h, n)
  \/ \E i \in 1..Len(reqs), n \in Nonces : ProviderSettles(i, n)
  \/ \E i \in 1..Len(reqs) : Forget(i)
SpecPrivy == Init /\ [][NextPrivy]_vars

\* The application reconfigures the server between requests and sees what
\* its configureX402 calls do.
FramePool == {AbsentHeader, HonestPayment, WrongSignerPayment}
NextFrame ==
  \/ \E c \in Configs \cup {NoConfig}, w \in {"privy", NoProvider} :
       ApplicationConfigures(c, w)
  \/ \E h \in FramePool, n \in Nonces :
       Len(reqs) < MaxReqs /\ x402Middleware(h, n)
  \/ \E i \in 1..Len(reqs), n \in Nonces : ProviderSettles(i, n)
  \/ \E i \in 1..Len(reqs) : Forget(i)
SpecFrame == Init /\ [][NextFrame]_vars

\* The client transports alone, against an arbitrary server.
SpecClient == InitClient /\ [][NextClient]_vars

\* The global fetch after initX402Fetch, against an arbitrary server.
SpecGlobal == InitClient /\ [][NextGlobal]_vars

(***************************************************************************)
(* Properties                                                              *)
(***************************************************************************)

Invocations == 1..Len(reqs)

\* A server configuration can be had: set, or loadable from the environment.
ConfigAvailable == globalConfig # NoConfig \/ env.address # Undef

\* The challenges createChallenge(routeConfig) can return now.
FreshChallenges ==
  {createChallenge(routeConfig, globalConfig, env, now, n).challenge :
     n \in Nonces}

\* In this step the invocation at position i returns.
Completes(i) ==
  /\ i \in 1..Len(reqs')
  /\ reqs'[i].pc = "done"
  /\ \/ Len(reqs') = Len(reqs) + 1 /\ i = Len(reqs')
     \/ Len(reqs') = Len(reqs) /\ reqs[i].pc = "awaiting"

\* C1: next() is called only for a request that carried an X-PAYMENT
\* header for which verifyPaymentHeader resolved to valid = true.
NextOnlyAfterValidPayment ==
  \A i \in Invocations :
    reqs[i].nextCalls > 0 =>
      /\ ~Falsy(reqs[i].header)
      /\ reqs[i].verifyUsed
      /\ reqs[i].verification # NoResult
      /\ reqs[i].verification.valid

PaymentGranted ==
  \E i \in Invocations :
    /\ reqs[i].pc = "done"
    /\ reqs[i].nextCalls = 1
    /\ reqs[i].verification.valid

\* C2: X402Client.request and x402Fetch with an explicit base fetch call
\* the transport at most twice and invoke the signer at most once; the
\* response to the second call is what the call returns, whatever its
\* status.
AtMostTwoTransportCalls ==
  call.kind \in {"client", "fetch"} =>
    /\ Len(call.wire) <= 2
    /\ Len(call.signerCalls) <= 1
    /\ (call.pc = "done" /\ Len(call.received) = 2 /\ ~call.received[2].failed)
         => call.result = Returned(call.received[2])

Second402Returned ==
  /\ call.kind \in {"client", "fetch"}
  /\ call.pc = "done"
  /\ Len(call.wire) = 2
  /\ Len(call.received) = 2
  /\ call.received[2].status = 402
  /\ call.received[2].challenge # NoChallenge
  /\ call.result = Returned(call.received[2])

\* C3: a request is granted only if price, currency, chain id and merchant
\* of the challenge embedded in its assertion are those the server
\* generates for the route.
GrantedOnlyOnRouteTerms ==
  \A i \in Invocations :
    reqs[i].nextCalls > 0 =>
      \E e \in FreshChallenges :
        LET c == reqs[i].header.value.challenge
        IN /\ c.price = e.price
           /\ c.currency = e.currency
           /\ c.chain_id = e.chain_id
           /\ GetAddress(c.merchant) = GetAddress(e.merchant)

\* C4: once a request with some X-PAYMENT header value has been granted, a
\* later request with the identical header value is not granted.
ReplayRefused ==
  [][\A i \in Invocations :
       reqs[i].nextCalls > 0 =>
         ~ /\ Len(reqs') = Len(reqs) + 1
           /\ reqs'[Len(reqs')].header = reqs[i].header
           /\ reqs'[Len(reqs')].nextCalls > 0]_vars

\* C5 as stated: every request without X-PAYMENT header is answered 402
\* with {error, challenge}, the challenge stored on the request, no
\* verificationError, no verification and no next().
HeaderlessAlwaysChallenged ==
  \A i \in Invocations :
    (reqs[i].header = AbsentHeader /\ reqs[i].pc = "done") =>
      /\ reqs[i].sentStatus = 402
      /\ reqs[i].x402Challenge # NoChallenge
      /\ reqs[i].sentBody = Body402(reqs[i].x402Challenge, NoText)
      /\ ~reqs[i].verifyUsed
      /\ reqs[i].nextCalls = 0

\* C5, amended: a request without X-PAYMENT header is answered, when a
\* server configuration can be had, with 402 and {error, challenge}, the
\* challenge newly built from the route config and stored on the request,
\* without verificationError, verification or next(); when none can be had
\* it is answered 500 and no challenge is issued.
HeaderlessChallenged ==
  [][\A i \in 1..Len(reqs') :
       (Completes(i) /\ reqs'[i].header = AbsentHeader) =>
         /\ ~reqs'[i].verifyUsed
         /\ reqs'[i].nextCalls = 0
         /\ IF ConfigAvailable
              THEN /\ reqs'[i].sentStatus = 402
                   /\ reqs'[i].x402Challenge \in FreshChallenges
                   /\ reqs'[i].sentBody = Body402(reqs'[i].x402Challenge, NoText)
              ELSE /\ reqs'[i].sentStatus = 500
                   /\ reqs'[i].x402Challenge = NoChallenge]_vars

HeaderlessGot402 ==
  \E i \in Invocations :
    /\ reqs[i].header = AbsentHeader
    /\ reqs[i].pc = "done"
    /\ reqs[i].sentStatus = 402
    /\ reqs[i].x402Challenge # NoChallenge

\* C6 as stated: every request whose X-PAYMENT header is present but does
\* not verify is answered 402 with a new challenge and a verificationError
\* that is the error of the verification result.
UnverifiedAlwaysChallenged ==
  \A i \in Invocations :
    ( /\ reqs[i].header # AbsentHeader
      /\ reqs[i].pc = "done"
      /\ reqs[i].nextCalls = 0
      /\ reqs[i].verifyUsed => reqs[i].verification # NoResult ) =>
      /\ reqs[i].sentStatus = 402
      /\ reqs[i].verifyUsed
      /\ reqs[i].x402Challenge # NoChallenge
      /\ reqs[i].sentBody =
           Body402(reqs[i].x402Challenge, reqs[i].verification.error)

\* C6, amended: when a server configuration can be had, a request whose
\* X-PAYMENT header is not empty and whose verification resolves to
\* valid = false is answered 402 with a challenge newly built from the
\* route config and the verificationError of the result (none if the
\* result has none); an empty header value is answered like a missing
\* header, without verification and without verificationError.
UnverifiedChallenged ==
  [][\A i \in 1..Len(reqs') :
       (Completes(i) /\ ConfigAvailable) =>
         /\ ( /\ reqs'[i].verifyUsed
              /\ reqs'[i].verification # NoResult
              /\ ~reqs'[i].verification.valid ) =>
              /\ reqs'[i].sentStatus = 402
              /\ reqs'[i].x402Challenge \in FreshChallenges
              /\ reqs'[i].sentBody =
                   Body402(reqs'[i].x402Challenge, reqs'[i].verification.error)
              /\ reqs'[i].nextCalls = 0
         /\ reqs'[i].header = EmptyHeader =>
              /\ ~reqs'[i].verifyUsed
              /\ reqs'[i].sentStatus = 402
              /\ reqs'[i].sentBody = Body402(reqs'[i].x402Challenge, NoText)]_vars

UnverifiedGot402 ==
  \E i \in Invocations :
    /\ reqs[i].pc = "done"
    /\ reqs[i].verifyUsed
    /\ reqs[i].verification # NoResult
    /\ reqs[i].verification.error = <<"Signature verification failed">>
    /\ reqs[i].sentStatus = 402
    /\ reqs[i].sentBody.verificationError = <<"Signature verification failed">>

\* C7: a malformed payment header (no JSON, or JSON without signer or
\* challenge) always yields a 402 with a format error, never a 500 and
\* never an exception that leaves the handler.
MalformedAlways402 ==
  \A i \in Invocations :
    (reqs[i].header \in {TextHeader, IncompletePayment} /\ reqs[i].pc = "done") =>
      /\ reqs[i].sentStatus = 402
      /\ reqs[i].sentBody.verificationError
           \in {<<"Invalid payment header format">>,
                <<"Verification error: ", "Unexpected token">>}
      /\ ~reqs[i].rejected

\* C8: a retried request has the URL, method and body of the original
\* request and every header the caller set on it, with the same value; the
\* X-PAYMENT header is what is added.
RetryPreservesRequest ==
  \A k \in 2..Len(call.wire) :
    /\ call.wire[k].url = call.wire[1].url
    /\ call.wire[k].method = call.wire[1].method
    /\ call.wire[k].body = call.wire[1].body
    /\ call.wire[k].headers.authorization = call.wire[1].headers.authorization

\* C9: when the rpcHandler of X402Client yields null, request() throws an
\* error whose message contains "Failed to obtain payment signature" and
\* the transport is not called again.
NullSignatureRaises ==
  ( /\ call.kind = "client"
    /\ \E k \in 1..Len(call.signerResults) :
         ~call.signerResults[k].threw /\ call.signerResults[k].value = NullSignature ) =>
    /\ call.pc = "done"
    /\ call.result.kind = "error"
    /\ Contains(call.result.message, "Failed to obtain payment signature")
    /\ Len(call.wire) = 1

NullSignatureSeen ==
  /\ call.kind = "client"
  /\ Len(call.signerResults) = 1
  /\ ~call.signerResults[1].threw
  /\ call.signerResults[1].value = NullSignature
  /\ call.result.kind = "error"

\* C10: a first response 402 whose body has no challenge or cannot be
\* parsed is returned to the caller as it is: no signer, no retry, no
\* error raised.
ChallengelessPassedThrough ==
  ( /\ call.pc = "done"
    /\ Len(call.received) >= 1
    /\ call.received[1].status = 402
    /\ call.received[1].challenge = NoChallenge ) =>
    /\ call.result = Returned(call.received[1])
    /\ call.signerCalls = <<>>
    /\ Len(call.wire) = 1

\* The first response is a 402 whose body carries a challenge.
FirstIsChallenge ==
  /\ Len(call.received) >= 1
  /\ ~call.received[1].failed
  /\ call.received[1].status = 402
  /\ call.received[1].challenge # NoChallenge

\* C11: without a signer the caller gets an explicit configuration error
\* and nothing is retried: X402Client without rpcHandler raises "No RPC
\* handler configured..." when the first response is a challenge, after
\* that one transport call; x402Fetch without handleX402 raises
\* "handleX402 must be provided..." before any transport call.  The 402 is
\* never returned and the signer is never invoked.
NoSignerRaises ==
  /\ (call.kind = "client" /\ ~call.hasHandler) =>
       /\ Len(call.wire) <= 1
       /\ call.signerCalls = <<>>
       /\ FirstIsChallenge =>
            /\ call.pc = "done"
            /\ call.result.kind = "error"
            /\ Contains(call.result.message,
                 "No RPC handler configured. Use setRpcHandler() or provide rpcHandler in constructor.")
  /\ (call.kind = "fetch" /\ ~call.hasHandler) =>
       /\ call.pc = "done"
       /\ call.result =
            Raised(<<"handleX402 must be provided. Call initX402Fetch() first or pass handleX402 parameter.">>)
       /\ call.wire = <<>>
       /\ call.signerCalls = <<>>

NoSignerChallenged ==
  /\ call.kind = "client"
  /\ ~call.hasHandler
  /\ FirstIsChallenge
  /\ call.result.kind = "error"

\* The first response has a status other than 402.
FirstIsNot402 ==
  /\ Len(call.received) >= 1
  /\ ~call.received[1].failed
  /\ call.received[1].status # 402

\* C12 as stated: a first response with a status other than 402 is
\* returned to the caller after exactly one transport call, without signer
\* and without retry, by X402Client.request, x402Fetch and the axios
\* interceptor.
Non402Returned ==
  FirstIsNot402 =>
    /\ call.pc = "done"
    /\ call.result = Returned(call.received[1])
    /\ Len(call.wire) = 1
    /\ call.signerCalls = <<>>

\* C12, amended: a first response with a status other than 402 ends the
\* call after exactly one transport call, without signer and without
\* retry; X402Client.request and x402Fetch return it, and so does the axios
\* interceptor when validateStatus accepts the status; a status that
\* validateStatus refuses (by default every status outside 200..299)
\* reaches the caller of axios as the rejection axios makes of it.
Non402PassedOn ==
  FirstIsNot402 =>
    /\ call.pc = "done"
    /\ Len(call.wire) = 1
    /\ call.signerCalls = <<>>
    /\ IF call.kind = "axios" /\ ~call.acceptAll
            /\ ~(call.received[1].status \in 200..299)
         THEN call.result = Raised(<<"Request failed with status code">>)
         ELSE call.result = Returned(call.received[1])

Non402Seen ==
  /\ FirstIsNot402
  /\ call.received[1].status = 500
  /\ call.result = Returned(call.received[1])

\* C13: when handleX402 of x402Fetch or of the axios interceptor resolves
\* to a falsy value for a challenge, the 402 that carried the challenge is
\* returned and no request follows: one transport call when it is the
\* first challenge.
FalsyHandlerReturns402 ==
  \A k \in 1..Len(call.signerResults) :
    ( /\ call.kind \in {"fetch", "axios"}
      /\ ~call.signerResults[k].threw
      /\ Falsy(call.signerResults[k].value) ) =>
      /\ k = Len(call.signerResults)
      /\ call.pc = "done"
      /\ Len(call.wire) = k
      /\ Len(call.received) = k
      /\ call.result = Returned(call.received[k])
      /\ call.received[k].status = 402

FalsyHandlerSeen ==
  /\ call.kind \in {"fetch", "axios"}
  /\ Len(call.signerResults) = 1
  /\ ~call.signerResults[1].threw
  /\ Falsy(call.signerResults[1].value)
  /\ call.result = Returned(call.received[1])

\* The calls of res.json an invocation has made.
Writes(q) ==
  Cardinality({k \in 1..Len(q.log) :
                 q.log[k] \in {"json", "json-throws", "json-again"}})

\* C14: an invocation that has returned has either written one response
\* or called next() once: no second write is made or attempted, and never
\* a write and a call of next() both.
OneResponseOrNext ==
  \A i \in Invocations :
    reqs[i].pc = "done" => Writes(reqs[i]) + reqs[i].nextCalls = 1

\* C15: a 402 response is sent with the header X-Payment-Required: true
\* among its headers, and no header is set on a response once its body has
\* been written.
MarkerHeaderSent ==
  \A i \in Invocations :
    /\ (reqs[i].sent /\ reqs[i].sentStatus = 402) =>
         <<"X-Payment-Required", "true">> \in reqs[i].sentHeaders
    /\ \A k \in 1..Len(reqs[i].log) :
         reqs[i].log[k] \notin {"setHeader-late", "setHeader-throws"}

\* C16: a granted request has x402Verified = true and the response header
\* X-Payment-Response: verified, both set before next() is called, and no
\* x402Challenge; a request answered 402 has neither x402Verified nor that
\* header.
VerifiedMarkedBeforeNext ==
  \A i \in Invocations :
    /\ reqs[i].nextCalls > 0 =>
         /\ reqs[i].x402Verified
         /\ <<"X-Payment-Response", "verified">> \in reqs[i].headers
         /\ reqs[i].log = <<"setHeader", "next">>
         /\ reqs[i].x402Challenge = NoChallenge
         /\ ~reqs[i].sent
    /\ (reqs[i].sent /\ reqs[i].sentStatus = 402) =>
         /\ ~reqs[i].x402Verified
         /\ <<"X-Payment-Response", "verified">>
              \notin reqs[i].headers \cup reqs[i].sentHeaders
         /\ reqs[i].nextCalls = 0

VerifiedMarked ==
  \E i \in Invocations :
    /\ reqs[i].nextCalls = 1
    /\ reqs[i].x402Verified
    /\ reqs[i].log = <<"setHeader", "next">>

WellFormed(header) ==
  /\ header.kind = "json"
  /\ header.value.signature # NoSignature
  /\ header.value.signer # Undef
  /\ header.value.challenge # NoChallenge

ResultsAlwaysComplete ==
  \A i \in Invocations :
    (reqs[i].verifyUsed /\ reqs[i].verification # NoResult) =>
      /\ ~reqs[i].verification.valid => reqs[i].verification.error # NoText
      /\ reqs[i].verification.valid => reqs[i].verification.signer # Undef

\* C18, amended: a result of verifyPaymentHeader that was made locally
\* (instant mode, or no provider configured) or by PrivyWalletProvider has
\* an error text when valid = false and the signer of the assertion when
\* valid = true; so has the result a provider's rejection is converted to.
\* The result of any other provider is returned as the provider made it.
OwnResultsComplete ==
  \A i \in Invocations :
    LET v == reqs[i].verification
    IN (reqs[i].verifyUsed /\ v # NoResult) =>
         /\ reqs[i].provider # "custom" =>
              /\ ~v.valid => v.error # NoText
              /\ v.valid => v.signer = reqs[i].header.value.signer
         /\ reqs[i].provider = "custom" =>
              \E o \in ProviderOutcomes(reqs[i].header.value.signer) :
                v = IF o.threw
                      THEN Invalid(<<"Verification error: ">> \o o.message)
                      ELSE o.result

PrivyDeclined ==
  \E i \in Invocations :
    /\ reqs[i].pc = "done"
    /\ reqs[i].provider = "privy"
    /\ reqs[i].verification = Invalid(<<"Invalid signature">>)

\* In this step the invocation at position i, which awaited the wallet
\* provider, returns.
Resumes(i) ==
  /\ Len(reqs') = Len(reqs)
  /\ reqs[i].pc = "awaiting"
  /\ reqs'[i].pc = "done"

\* C19: for an assertion with signature, signer and challenge, and a
\* configuration at hand, verifyPaymentHeader calls the wallet provider
\* exactly when config.mode is "embedded" and a provider is configured, and
\* then resolves to what the provider resolved to, without a signature
\* check of its own; otherwise it resolves to the result of the local
\* signature check and the provider is not called.
DelegatesExactlyWhenEmbedded ==
  [][\A i \in 1..Len(reqs') :
       /\ (Len(reqs') = Len(reqs) + 1 /\ i = Len(reqs')) =>
            LET h == reqs'[i].header
                c == getConfig(globalConfig, env)
            IN /\ reqs'[i].pc = "awaiting" <=>
                    /\ WellFormed(h)
                    /\ ~c.threw
                    /\ c.config.mode = "embedded"
                    /\ globalWalletProvider # NoProvider
               /\ reqs'[i].pc = "awaiting" =>
                    reqs'[i].provider = globalWalletProvider
               /\ (reqs'[i].pc = "done" /\ WellFormed(h) /\ ~c.threw) =>
                    /\ reqs'[i].provider = NoProvider
                    /\ reqs'[i].verification =
                         verifyLocally(h.value.challenge, h.value.signature,
                                       h.value.signer)
       /\ Resumes(i) =>
            \E o \in SettleOutcomes(reqs[i]) :
              /\ ~o.threw => reqs'[i].verification = o.result
              /\ o.threw => reqs'[i].verification # NoResult
              /\ reqs'[i].nextCalls =
                   IF ~o.threw /\ o.result # NoResult /\ o.result.valid
                     THEN 1 ELSE 0]_vars

\* The provider vouches for an assertion the local check refuses.
ProviderOverridesLocal ==
  \E i \in Invocations :
    /\ reqs[i].pc = "done"
    /\ reqs[i].provider = "custom"
    /\ reqs[i].header = WrongSignerPayment
    /\ reqs[i].verification = Valid("0xOther")
    /\ reqs[i].nextCalls = 1

\* The error texts a provider itself gives: the message it rejects with
\* and the error of a result it resolves to.
ProviderTexts(signer) ==
  {o.message : o \in {p \in ProviderOutcomes(signer) : p.threw}}
    \cup {o.result.error :
            o \in {p \in ProviderOutcomes(signer) :
                     ~p.threw /\ p.result # NoResult /\ ~p.result.valid}}

\* C20 as stated: when the provider's verifyPayment raises with message m
\* or resolves to {valid: false, error: m}, the answer is a 402 whose
\* verificationError is m.
ProviderTextSurfacedExactly ==
  \A i \in Invocations :
    ( /\ reqs[i].pc = "done"
      /\ reqs[i].provider = "custom"
      /\ reqs[i].verification # NoResult
      /\ ~reqs[i].verification.valid ) =>
      /\ reqs[i].sentStatus = 402
      /\ reqs[i].sentBody.verificationError
           \in ProviderTexts(reqs[i].header.value.signer)

\* C20, amended: when the provider's verifyPayment resolves to
\* {valid: false, error: m} the answer is a 402 whose verificationError is
\* m (none when the result has no error); when it raises with message m the
\* answer is a 402 whose verificationError is "Verification error: "
\* followed by m.  A 500 is not sent in either case.
ProviderFailureIn402 ==
  [][\A i \in 1..Len(reqs') :
       Resumes(i) =>
         \E o \in SettleOutcomes(reqs[i]) :
           /\ reqs'[i].verification = verifyPaymentHeaderResume(o)
           /\ o.threw =>
                /\ reqs'[i].sentStatus = 402
                /\ reqs'[i].sentBody.verificationError =
                     <<"Verification error: ">> \o o.message
           /\ (~o.threw /\ o.result # NoResult /\ ~o.result.valid) =>
                /\ reqs'[i].sentStatus = 402
                /\ reqs'[i].sentBody.verificationError = o.result.error]_vars

ProviderRejectionIn402 ==
  \E i \in Invocations :
    /\ reqs[i].pc = "done"
    /\ reqs[i].provider = "custom"
    /\ reqs[i].sentStatus = 402
    /\ reqs[i].sentBody.verificationError =
         <<"Verification error: ", "provider: unreachable">>

\* C21: an invocation in which something was thrown is answered 500 with
\* a body that has nothing of the thrown error's text, and next() is not
\* called.
FaultGives500WithoutDetail ==
  \A i \in Invocations :
    (reqs[i].pc = "done" /\ reqs[i].excMsg # NoText) =>
      /\ reqs[i].sentStatus = 500
      /\ reqs[i].sentBody = Body500(NoText)
      /\ reqs[i].nextCalls = 0

\* C22: a challenge made by createChallenge has the route's price and
\* description, the merchant of the server config, the route's currency if
\* the route has one, else the config's, else "USDC", and the route's
\* chainId if the route has one, else the config's, else 8453.
RouteWinsMerge ==
  [][\A i \in 1..Len(reqs') :
       (Completes(i) /\ reqs'[i].x402Challenge # NoChallenge) =>
         LET c == getConfig(globalConfig, env).config
             ch == reqs'[i].x402Challenge
         IN /\ ch.price = routeConfig.price
            /\ ch.description = routeConfig.description
            /\ ch.merchant = c.merchantAddress
            /\ ch.currency =
                 IF routeConfig.currency # Undef THEN routeConfig.currency
                 ELSE IF c.currency # Undef THEN c.currency ELSE "USDC"
            /\ ch.chain_id =
                 IF routeConfig.chainId # UndefNum THEN routeConfig.chainId
                 ELSE IF c.chainId # UndefNum THEN c.chainId
                 ELSE DefaultChainId]_vars

\* C23 as stated: no two challenges issued in one process carry the same
\* nonce.
NoncesNeverRepeat ==
  \A i, j \in Invocations :
    ( /\ i # j
      /\ reqs[i].x402Challenge # NoChallenge
      /\ reqs[j].x402Challenge # NoChallenge ) =>
      reqs[i].x402Challenge.nonce # reqs[j].x402Challenge.nonce

\* C23, amended: every 402 response carries the challenge that
\* createChallenge made for it, with the nonce generateNonce() returned in
\* that call, never a challenge taken from the request.  Nonces are random
\* and not recorded, so two issued challenges may carry the same one.
ChallengeMadePerResponse ==
  [][\A i \in 1..Len(reqs') :
       (Completes(i) /\ reqs'[i].sentStatus = 402) =>
         /\ reqs'[i].sentBody.challenge \in FreshChallenges
         /\ reqs'[i].sentBody.challenge = reqs'[i].x402Challenge]_vars

TwoChallengesIssued ==
  \E i, j \in Invocations :
    /\ i < j
    /\ reqs[i].sentStatus = 402
    /\ reqs[j].sentStatus = 402
    /\ reqs[i].x402Challenge.nonce # reqs[j].x402Challenge.nonce

\* In this step a new invocation runs to its end without awaiting.
Direct(i) ==
  /\ Len(reqs') = Len(reqs) + 1
  /\ i = Len(reqs')
  /\ reqs'[i].pc = "done"

\* C24: local verification of an assertion whose signature was made by key
\* K over encodePaymentMessage(challenge) and whose signer is the address
\* of K, in any letter case, gives valid = true with the signer as it was
\* claimed.
RightlySignedVerifies ==
  [][\A i \in 1..Len(reqs') :
       LET h == reqs'[i].header IN
       ( /\ Direct(i)
         /\ WellFormed(h)
         /\ ConfigAvailable
         /\ ~encodePaymentMessage(h.value.challenge).threw
         /\ h.value.signature = SignWith("K", encodePaymentMessage(h.value.challenge).hash)
         /\ ToLowerCase(h.value.signer) = ToLowerCase(AddressOf("K")) ) =>
         /\ reqs'[i].verification = Valid(h.value.signer)
         /\ reqs'[i].nextCalls = 1]_vars

BothSpellingsVerify ==
  \E i \in Invocations :
    /\ reqs[i].header = ChecksumPayment
    /\ reqs[i].verification = Valid("0xPayer")
    /\ reqs[i].nextCalls = 1

\* C27: in local mode an assertion with signature, signer and a challenge
\* that can be hashed, whose signature does not recover to the claimed
\* signer (it is over another challenge, by another key, or malformed),
\* gives valid = false with the error "Signature verification failed", and
\* the answer is a 402 with that verificationError.
WronglySignedRefused ==
  [][\A i \in 1..Len(reqs') :
       ( /\ Direct(i)
         /\ ConfigAvailable
         /\ reqs'[i].header \in
              {MismatchedPayment, WrongSignerPayment, MalformedPayment} ) =>
         /\ reqs'[i].verification = Invalid(<<"Signature verification failed">>)
         /\ reqs'[i].sentStatus = 402
         /\ reqs'[i].sentBody.verificationError = <<"Signature verification failed">>
         /\ reqs'[i].nextCalls = 0]_vars

MalformedSignatureRefused ==
  \E i \in Invocations :
    /\ reqs[i].header = MalformedPayment
    /\ reqs[i].sentStatus = 402
    /\ reqs[i].sentBody.verificationError = <<"Signature verification failed">>

\* The six signed fields of a challenge as the challenge gives them.
SignedFields(c) ==
  <<c.price, c.currency, c.chain_id, c.merchant, c.timestamp, c.description>>

\* The six signed fields with the merchant as an address (whatever the
\* letter case it is spelled in) and a missing description as the empty
\* one.
SignedValues(c) ==
  <<c.price, c.currency, c.chain_id, ToLowerCase(c.merchant), c.timestamp,
    IF c.description = Undef THEN "" ELSE c.description>>

\* The invocation compared the signature with the hash of its challenge.
HashCompared(q) ==
  /\ q.pc = "done"
  /\ q.header \in HashPool
  /\ q.verification \in
       {Valid(q.header.value.signer), Invalid(<<"Signature verification failed">>)}

\* C25 as stated: two challenges hash alike exactly when their six signed
\* fields are identical as given.
HashFollowsFieldsAsGiven ==
  /\ \A i \in Invocations :
       HashCompared(reqs[i]) =>
         (reqs[i].verification.valid <=>
            SignedFields(reqs[i].header.value.challenge)
              = SignedFields(IssuedChallenge))
  /\ \A a, b \in HashChallenges :
       (encodePaymentMessage(a).hash = encodePaymentMessage(b).hash)
         <=> (SignedFields(a) = SignedFields(b))

\* C25, amended: two challenges hash alike exactly when they agree in
\* price, currency, chain_id, timestamp, in merchant as an address
\* (spellings of one address in different letter case count as the same)
\* and in description, a missing description counting as the empty one;
\* the nonce has no influence.
HashFollowsSignedValues ==
  /\ \A i \in Invocations :
       HashCompared(reqs[i]) =>
         (reqs[i].verification.valid <=>
            SignedValues(reqs[i].header.value.challenge)
              = SignedValues(IssuedChallenge))
  /\ \A a, b \in HashChallenges :
       (encodePaymentMessage(a).hash = encodePaymentMessage(b).hash)
         <=> (SignedValues(a) = SignedValues(b))

OtherNonceSameHash ==
  \E i \in Invocations :
    /\ HashCompared(reqs[i])
    /\ reqs[i].header.value.challenge.nonce # IssuedChallenge.nonce
    /\ reqs[i].verification.valid

\* C28: on an axios instance with the interceptor every 402 that carries a
\* challenge is handled, whichever path axios delivers it on: handleX402
\* is invoked with the challenge.
AxiosHandlesEvery402 ==
  (call.kind = "axios" /\ call.pc = "done" /\ FirstIsChallenge) =>
    /\ Len(call.signerCalls) >= 1
    /\ call.signerCalls[1] = call.received[1].challenge

\* C29: one request on an axios instance with the interceptor is retried
\* at most once and handleX402 is invoked at most once; a second 402 with
\* a challenge is returned as it is.
AxiosAtMostOneRetry ==
  call.kind = "axios" =>
    /\ Len(call.wire) <= 2
    /\ Len(call.signerCalls) <= 1
    /\ ( /\ call.pc = "done"
         /\ Len(call.received) = 2
         /\ ~call.received[2].failed
         /\ call.received[2].status = 402
         /\ call.received[2].challenge # NoChallenge )
         => call.result = Returned(call.received[2])

\* C30: one logical call of the global fetch after initX402Fetch, or of
\* x402Fetch without an explicit base fetch, calls the platform's fetch at
\* most twice and invokes handleX402 at most once.
GlobalFetchAtMostTwoCalls ==
  call.kind = "global" =>
    /\ Len(call.wire) <= 2
    /\ Len(call.signerCalls) <= 1

\* C26: a client with a signer that signs the challenge it receives,
\* calling a protected route without a payment header, first gets a 402
\* whose challenge carries the route's price, currency and chain_id, and
\* its call ends after exactly two requests with the second one granted:
\* next() has run and X-Payment-Response: verified is set.
HandshakeEndsGranted ==
  /\ (call.kind = "client" /\ Len(call.received) >= 1) =>
       LET r == call.received[1]
       IN /\ ~r.failed
          /\ r.status = 402
          /\ r.challenge # NoChallenge
          /\ r.challenge.price = routeConfig.price
          /\ routeConfig.currency # Undef =>
               r.challenge.currency = routeConfig.currency
          /\ routeConfig.chainId # UndefNum =>
               r.challenge.chain_id = routeConfig.chainId
  /\ (call.kind = "client" /\ call.pc = "done") =>
       /\ Len(call.wire) = 2
       /\ Len(reqs) = 2
       /\ reqs[2].nextCalls = 1
       /\ <<"X-Payment-Response", "verified">> \in reqs[2].headers
       /\ call.result.kind = "response"
       /\ call.result.response.status = 200

\* The invocation answered 402.
Sent402(q) == q.sent /\ q.sentStatus = 402

\* Two challenges differ at most in nonce and timestamp.
SameTerms(a, b) ==
  [a EXCEPT !.nonce = 0, !.timestamp = 0] = [b EXCEPT !.nonce = 0, !.timestamp = 0]

\* C31: every challenge in a 402 response is made of the route config and
\* the server config alone: its merchant is the configured merchantAddress,
\* its price and description are the route's, and requests to the route
\* that differ in their content only are sent challenges that differ at
\* most in nonce and timestamp.
ChallengeFromConfigOnly ==
  \A i \in Invocations :
    Sent402(reqs[i]) =>
      LET c == reqs[i].sentBody.challenge
      IN /\ globalConfig # NoConfig
         /\ c.merchant = globalConfig.merchantAddress
         /\ c.price = routeConfig.price
         /\ c.description = routeConfig.description
         /\ \A j \in Invocations :
              Sent402(reqs[j]) => SameTerms(c, reqs[j].sentBody.challenge)

OtherTermsSameChallenge ==
  \E i, j \in Invocations :
    /\ Sent402(reqs[i]) /\ reqs[i].header = AbsentHeader
    /\ Sent402(reqs[j]) /\ reqs[j].header = UnsignedForgery
    /\ reqs[i].sentBody.challenge.nonce # reqs[j].sentBody.challenge.nonce
    /\ reqs[j].sentBody.challenge.merchant # ForgedChallenge.merchant

\* C32: in one logical client request the signer or handler is invoked at
\* most once, only after a 402 response whose body holds a challenge, and
\* with exactly that challenge; it is never invoked before the first
\* network call has settled.
SignerOnceWithReceivedChallenge ==
  call.kind # "none" =>
    /\ Len(call.signerCalls) <= 1
    /\ call.signerCalls # <<>> =>
         /\ Len(call.received) >= 1
         /\ ~call.received[1].failed
         /\ call.received[1].status = 402
         /\ call.received[1].challenge # NoChallenge
         /\ call.signerCalls[1] = call.received[1].challenge

\* C33: once the first response is a 402, x402Fetch and a request on an
\* axios instance with the interceptor never reject; when no retry was
\* sent, or the retry failed, the call resolves with the first response.
After402NeverRejects ==
  ( /\ call.kind \in {"fetch", "axios"}
    /\ call.pc = "done"
    /\ Len(call.received) >= 1
    /\ ~call.received[1].failed
    /\ call.received[1].status = 402 ) =>
      /\ call.result.kind = "response"
      /\ (Len(call.wire) = 1 \/ call.received[Len(call.received)].failed) =>
           call.result = Returned(call.received[1])

\* C35: X402Client.request hands the caller's signal to the transport
\* unmodified, on the first call and on the retry.
CallerSignalPassedThrough ==
  call.kind = "client" =>
    \A k \in 1..Len(call.wire) : call.wire[k].signal = call.init.signal

\* C34: in X402Client.request a timeout timer is pending only while the
\* fetch it was set for is in flight: none is pending while the signer
\* runs, nor after request() has returned or thrown.
TimerOnlyDuringOwnFetch ==
  call.kind = "client" =>
    IF call.pc = "transport" THEN call.timers = {CurrentTimer(call)}
    ELSE call.timers = {}

SignerRunsUntimed ==
  /\ call.kind = "client"
  /\ call.pc = "signing"
  /\ Len(call.received) = 1
  /\ call.timers = {}

\* What an invocation for a request with this header can be, up to its
\* await and after its return, when it is the only one the server handles
\* under the present configuration.
AloneRuns(header) ==
  LET q0 == NewInvocation(header, strictRes)
      vs == verifyPaymentHeader(header, globalConfig, env, globalWalletProvider)
      q1 == [q0 EXCEPT !.pc = "awaiting", !.provider = globalWalletProvider]
  IN IF Falsy(header)
       THEN {Catch(IssueChallenge(q0,
                     createChallenge(routeConfig, globalConfig, env, now, n),
                     NoText)) : n \in Nonces}
     ELSE IF vs.delegated
       THEN {q1} \cup
            {Catch(AfterVerification(q1, verifyPaymentHeaderResume(o),
                     createChallenge(routeConfig, vs.gc, env, now, n))) :
               o \in SettleOutcomes(q1), n \in Nonces}
       ELSE {Catch(AfterVerification(q0, vs.result,
                     createChallenge(routeConfig, vs.gc, env, now, n))) :
               n \in Nonces}

\* C36: while configureX402 is not called with requests in flight, every
\* invocation, however it interleaves with others (suspended at the
\* delegated verifyPayment included), ends as it would have ended alone:
\* same status and body, verificationError, x402Verified and x402Challenge.
InvocationsIndependent ==
  \A i \in Invocations : reqs[i] \in AloneRuns(reqs[i].header)

ResumedAmongOthers ==
  /\ Len(reqs) = 2
  /\ reqs[1].pc = "done" /\ reqs[1].provider # NoProvider
  /\ reqs[2].pc = "done" /\ reqs[2].provider # NoProvider
  /\ reqs[1].header # reqs[2].header
  /\ reqs[1].nextCalls # reqs[2].nextCalls

\* C39: embedded mode with the PrivyWalletProvider gives the verdict of
\* instant mode: for an assertion with all three fields the result has the
\* same valid flag and the same signer in both configurations (the error
\* text may differ), and verifyPayment of the provider never throws.
PrivyVerdictAsInstant ==
  \A i \in Invocations :
    (reqs[i].pc = "done" /\ reqs[i].provider = "privy") =>
      LET a == reqs[i].header.value
          l == verifyLocally(a.challenge, a.signature, a.signer)
      IN /\ reqs[i].verification # NoResult
         /\ reqs[i].verification.valid = l.valid
         /\ reqs[i].verification.signer = l.signer
         /\ reqs[i].verification.error = NoText
              \/ reqs[i].verification.error[1] # "Verification error: "
         /\ \A j \in Invocations :
              ( /\ reqs[j].pc = "done"
                /\ reqs[j].provider = NoProvider
                /\ reqs[j].header = reqs[i].header ) =>
                  /\ reqs[j].verification.valid = reqs[i].verification.valid
                  /\ reqs[j].verification.signer = reqs[i].verification.signer
                  /\ reqs[j].nextCalls = reqs[i].nextCalls

BothModesSameVerdict ==
  \E i, j \in Invocations :
    /\ reqs[i].pc = "done" /\ reqs[i].provider = "privy"
    /\ reqs[j].pc = "done" /\ reqs[j].provider = NoProvider
    /\ reqs[i].header = ChecksumPayment
    /\ reqs[j].header = ChecksumPayment
    /\ reqs[i].verification = Valid("0xPayer")
    /\ reqs[j].verification = Valid("0xPayer")

\* The assertion went out on the retry: what the signer resolved to, the
\* header value built from it, and what JSON.parse makes of that value.
RetrySent == call.kind = "client" /\ Len(call.wire) = 2
SignedBySigner == call.signerResults[1].value
SentHeader == call.wire[2].headers.xpayment

\* The server has parsed the header of the retry and found its shape right.
ParsedByServer ==
  /\ Len(reqs) = 2
  /\ reqs[2].header = SentHeader
  /\ reqs[2].verifyUsed
  /\ reqs[2].verification.error \notin
       {<<"Invalid payment header format">>,
        <<"Verification error: ", "Unexpected token">>}

\* C37 as stated: the X-PAYMENT value built from any PaymentSignature is
\* JSON that parses back to the same signature, signer and challenge, all
\* challenge fields equal, passes the shape check, and carries those three
\* members only.
WireRoundTripExact ==
  RetrySent =>
    LET p == JsonParse(SentHeader)
    IN /\ ~p.threw
       /\ DOMAIN p.value = {"signature", "signer", "challenge"}
       /\ p.value.signature = SignedBySigner.signature
       /\ p.value.signer = SignedBySigner.signer
       /\ p.value.challenge = SignedBySigner.challenge
       /\ Len(reqs) = 2 => ParsedByServer

\* C37, amended: the value parses back to the same signature and signer
\* and to a challenge equal in every field whose value JSON can write; a
\* number that is NaN arrives as null.  It passes the shape check and
\* carries the three members only.
WireRoundTripJson ==
  RetrySent =>
    LET p == JsonParse(SentHeader)
        c == SignedBySigner.challenge
    IN /\ ~p.threw
       /\ DOMAIN p.value = {"signature", "signer", "challenge"}
       /\ p.value.signature = SignedBySigner.signature
       /\ p.value.signer = SignedBySigner.signer
       /\ \A f \in DOMAIN c \ {"chain_id", "timestamp"} :
            p.value.challenge[f] = c[f]
       /\ \A f \in {"chain_id", "timestamp"} :
            p.value.challenge[f] = IF c[f] = NaN THEN NullNum ELSE c[f]
       /\ Len(reqs) = 2 => ParsedByServer

DescribedChallengeArrives ==
  /\ RetrySent
  /\ ParsedByServer
  /\ SignedBySigner.challenge.description = "premium"
  /\ reqs[2].header.value.challenge = SignedBySigner.challenge

\* The middleware (createChallenge and verifyPaymentHeader with it) leaves
\* the wallet provider and a config that is set as they are; a config that
\* is not set may be loaded from the environment.
MiddlewareKeepsGlobals ==
  reqs' # reqs =>
    /\ globalWalletProvider' = globalWalletProvider
    /\ globalConfig # NoConfig => globalConfig' = globalConfig
    /\ globalConfig' \in {globalConfig, loadConfigFromEnv(env).config}

\* After a configureX402 call without a walletProvider a new request with
\* an assertion is verified locally, embedded mode or not.
FallsBackToLocal ==
  \A i \in 1..Len(reqs') :
    ( /\ Len(reqs') = Len(reqs) + 1 /\ i = Len(reqs')
      /\ lastConfigure # NoCall
      /\ ~lastConfigure.threw
      /\ lastConfigure.walletProvider = NoProvider ) =>
        /\ reqs'[i].pc = "done"
        /\ reqs'[i].provider = NoProvider

\* C38 as stated: the globals change through configureX402 and the lazy
\* load only, and configureX402 replaces both the config and the wallet
\* provider on every call, so that a call without a walletProvider leaves
\* none configured.
ConfigureReplacesBothAlways ==
  [][/\ MiddlewareKeepsGlobals
     /\ FallsBackToLocal
     /\ lastConfigure' # NoCall =>
          /\ globalWalletProvider' = lastConfigure'.walletProvider
          /\ lastConfigure'.config # NoConfig =>
               globalConfig' = lastConfigure'.config]_vars

\* C38, amended: the globals change through configureX402 and the lazy
\* load only; a configureX402 call that returns replaces both the config
\* and the wallet provider, so that a call without a walletProvider leaves
\* none configured and embedded-mode verification falls back to the local
\* one; a call without a config that throws because the environment names
\* no merchant address changes neither.
ConfigureReplacesBothOnReturn ==
  [][/\ MiddlewareKeepsGlobals
     /\ FallsBackToLocal
     /\ (lastConfigure' # NoCall /\ ~lastConfigure'.threw) =>
          /\ globalWalletProvider' = lastConfigure'.walletProvider
          /\ globalConfig' = IF lastConfigure'.config # NoConfig
                               THEN lastConfigure'.config
                               ELSE loadConfigFromEnv(env).config
     /\ (lastConfigure' # lastConfigure /\ lastConfigure'.threw) =>
          /\ globalConfig' = globalConfig
          /\ globalWalletProvider' = globalWalletProvider]_vars

EmbeddedVerifiedLocally ==
  /\ lastConfigure # NoCall
  /\ lastConfigure.walletProvider = NoProvider
  /\ globalConfig # NoConfig
  /\ globalConfig.mode = "embedded"
  /\ \E i \in Invocations :
       /\ reqs[i].pc = "done"
       /\ reqs[i].header = HonestPayment
       /\ reqs[i].provider = NoProvider
       /\ reqs[i].verification = Valid("0xpayer")

====
